---- MODULE Spec2Model ----
(***************************************************************************)
(* Model of the standup voice session bridge:                              *)
(*   backend/app/services/voice_endpoint.py   (StandupVoiceSession,        *)
(*                                             handle_voice_websocket)     *)
(*   backend/app/services/elevenlabs_service.py (ElevenLabsVoiceHandler,   *)
(*                                             JitsiElevenLabsBridge)      *)
(* The program is asyncio code: one coroutine per client connection        *)
(* (handle_voice_websocket) and one background task per upstream socket    *)
(* (ElevenLabsVoiceHandler._listen).  A step of the model is what one      *)
(* coroutine does between two suspension points.                           *)
(***************************************************************************)
EXTENDS Integers, Sequences, FiniteSets, TLC

VARIABLES
    S,          \* per connection: the handler's position, its StandupVoiceSession,
                \* the bridge/handler it owns, its sockets and what was observed
    registry    \* active_voice_sessions: session id -> connection (0 = no entry)

vars == <<S, registry>>

----------------------------------------------------------------------------
(* Bounds of the model *)
MaxClientMsgs == 3      \* client messages handled per connection (ping-like ones aside)
MaxTranscripts == 1     \* transcript entries per session
MaxEntries == 2         \* transcript entries handed to the summary pipeline
MaxUpdates == 1         \* updates the reasoning backend extracts
MaxDispatched == 2      \* updates dispatched to the tracker
MaxSockets == 2         \* upstream sockets opened per connection
MaxErrorEvents == 1     \* upstream "error" events per connection
MaxAudioFrames == 4     \* queue_pcm calls on a handler driven directly
MaxFifoFrames == 12     \* queue_pcm calls when the pre-readiness FIFO is filled
MaxFormatFrames == 3    \* queue_pcm calls when the payload formats are probed
MaxGateFrames == 100    \* frames process_audio takes before the conversation starts
MaxDelivered == 3       \* text events the upstream delivers to one session
MaxUndecodable == 2     \* frames json.loads rejects, per session
MaxEmptyFlushes == 2    \* calls of flush() that find the buffer empty
MaxPings == 2           \* keepalive pings the upstream sends to one session

(* Program constants *)
MaxPending == 10        \* len(_pending_audio_before_ready) > 10 -> pop(0)
FlushBytes == 3200      \* _flush_bytes
SpeechRms == 2          \* rms > 0.002, in units of 0.001
AvgRms == 8             \* avg_rms > 0.008, in units of 0.001
AvgChunks == 30         \* _pre_start_chunks >= 30
AutoChunks == 100       \* _pre_start_chunks >= 100
MinFrameBytes == 8      \* four 16-bit samples: below, _is_speech uses no sample
NumVariants == 4        \* len(variants) in _send_chunk
MinConversation == 50   \* len(conversation) < 50
DeveloperLen == 9       \* len("Developer")
ModeratorLen == 12      \* len("AI Moderator")
SeparatorLen == 2       \* len(": ")
NewlineLen == 1         \* len("\n")

Conns == {1, 2}                     \* connections (handler coroutines)
Ids == {"s1", "s2"}                 \* standup ids
Variants == 0 .. (NumVariants - 1)
Threads == 0 .. MaxSockets          \* 0: the client handler, k: listener of socket k
NoSock == 0                         \* self.websocket is None
NoFormat == -1                      \* _successful_payload_format is None
Unset == -1                         \* attribute not set / empty dict

(* Inputs drawn by the environment: an audio frame is its identity (the      *)
(* position of the call that passed it), its length in bytes and its rms    *)
SilentFrame == [id |-> 0, len |-> 1600, rms |-> 0]
SpeechFrame == [id |-> 0, len |-> 3200, rms |-> 5]
OddFrame == [id |-> 0, len |-> 1601, rms |-> 5]
NoFrame == [id |-> 0, len |-> 0, rms |-> 0]
LoudFrame == [id |-> 0, len |-> 3200, rms |-> 30]
MurmurFrame == [id |-> 0, len |-> 3200, rms |-> 9]
TinyFrame == [id |-> 0, len |-> 6, rms |-> 30]

\* lengths of transcript texts: empty, and such that one or two lines fall on
\* either side of MinConversation
TextLens == {0, 13, 38, 39}

\* capture timestamps of transcript entries
Stamps == {1, 2}

\* the frame f as the i-th frame passed in
Stamp(f, i) == [f EXCEPT !.id = i]

Min(A) == CHOOSE x \in A : \A y \in A : x <= y

\* len() of the bytes of a sequence of frames
RECURSIVE SumSeq(_)
SumSeq(q) == IF q = <<>> THEN 0 ELSE Head(q).len + SumSeq(Tail(q))

\* the identities of a sequence of frames
FrameIds(q) == [i \in 1 .. Len(q) |-> q[i].id]

----------------------------------------------------------------------------
(* State after construction *)

InitThread == [stage |-> "idle", res |-> FALSE]

\* no ping, force_start or get_transcripts message is being handled
NoCtl == [type |-> "", reply |-> <<>>]

\* no user_joined message is being handled
NoJoin == [topics |-> 0, asked |-> FALSE, fetched |-> Unset]

InitConn == [
    \* position of handle_voice_websocket and its locals
    pc |-> "new", sid |-> "", waitKind |-> "", frame |-> NoFrame,
    endRet |-> "",
    \* client transport
    peerGone |-> FALSE, client_state |-> "CONNECTING",
    \* StandupVoiceSession
    bridge |-> FALSE, is_active |-> FALSE, team_id |-> FALSE,
    pre_start_chunks |-> 0, rms_accum |-> 0, rms_samples |-> 0,
    conversation_started |-> FALSE, start_time |-> FALSE,
    user_transcripts |-> <<>>, agent_transcripts |-> <<>>,
    issues_context |-> Unset,
    \* JitsiElevenLabsBridge / ElevenLabsVoiceHandler
    started |-> FALSE, dynamic_variables |-> Unset,
    websocket |-> NoSock, is_connected |-> FALSE, conversation_ready |-> FALSE,
    init_sent |-> FALSE, pcm_buffer |-> <<>>, pending |-> <<>>,
    successful_payload_format |-> NoFormat,
    \* time.time() - _last_flush > 0.1
    interval_over |-> FALSE,
    \* every websocket.send() on an upstream socket, in call order
    sent |-> <<>>,
    \* socket errors caught, and calls of the registered error observer
    socket_errors |-> 0, error_events |-> 0,
    \* upstream sockets opened so far, each with its _listen task and, once
    \* closed, the way it closed ("1000": gracefully, "error")
    socks |-> <<>>,
    \* _end_session activations, per coroutine
    th |-> [t \in Threads |-> InitThread],
    \* observation
    msgs |-> 0, queue_calls |-> 0, pipelineCalls |-> 0, sessionEndedSent |-> 0,
    initialized |-> FALSE, joinedSeen |-> FALSE, forceSeen |-> FALSE,
    endTriggered |-> FALSE, endSnap |-> "none",
    \* the last control message handled: its outcome, and whether a message
    \* reporting it was handed to the client transport
    lastOp |-> [kind |-> "", result |-> "", notified |-> FALSE],
    closed |-> FALSE,
    \* the SummaryResult process_session_end returned, if it was called
    summary_result |-> <<>>,
    \* the frame of the last message if process_audio took it before the
    \* conversation had started, whether it made should_start true, and the
    \* reason sent to the client
    gate |-> [frame |-> NoFrame, start |-> FALSE, reason |-> ""],
    \* what time.time() returns now, and the kinds of the text events
    \* _handle_event was given while the session was active, in arrival order
    clock |-> 1, delivered |-> <<>>,
    \* the user_joined message being handled: the number of topics it carried,
    \* whether the tracker was asked for the team's issues and what it answered
    join |-> NoJoin,
    \* the ping, force_start or get_transcripts message being handled: its
    \* type and the messages handed to the client transport in answer
    ctl |-> NoCtl,
    \* frames read by _listen that json.loads rejected
    undecodable |-> 0,
    \* calls of flush() that found _pcm_buffer empty
    empty_flushes |-> 0,
    \* ping events read by _listen and handled
    pings |-> 0,
    \* the readiness event was received on the socket self.websocket names
    socket_ready |-> FALSE
]

Init ==
    /\ S = [c \in Conns |-> InitConn]
    /\ registry = [i \in Ids |-> 0]

----------------------------------------------------------------------------
(* ElevenLabsVoiceHandler: pure steps on one connection's record s.       *)
(* io = [cachedFails, fails] is what the environment decides for one call *)
(* of _send_chunk: whether the send of the cached variant raises, and     *)
(* which variants raise in the probing loop.  A websocket.send() either   *)
(* writes its frame and returns or raises; it suspends only after the     *)
(* write.                                                                 *)

SendOk == [cachedFails |-> FALSE, fails |-> {}]
SendFails == [cachedFails |-> TRUE, fails |-> Variants]

SockOpen(s, k) == k # NoSock /\ s.socks[k].open

\* the socket was closed with close code 1000: "1000" in str(e)
Graceful(s) == ~SockOpen(s, s.websocket) /\ s.socks[s.websocket].code = "1000"

\* one websocket.send(json.dumps(payload)) of an audio chunk in variant v:
\* the frames it carries and the byte length after padding to even length
AudioSend(s, chunk, v, ok) ==
    [sock |-> s.websocket, kind |-> "audio", fmt |-> v, ok |-> ok,
     ids |-> FrameIds(chunk), len |-> SumSeq(chunk),
     bytes |-> SumSeq(chunk) + (SumSeq(chunk) % 2)]

\* the probing loop without its return: every variant is sent
ProbesAll(s, chunk, ok) ==
    [i \in 1 .. NumVariants |-> AudioSend(s, chunk, i - 1, (i - 1) \in ok)]

\* the sends of the loop "for idx, payload in enumerate(variants)": it stops
\* at the first variant whose send returns
Probes(s, chunk, ok) ==
    LET last == IF ok = {} THEN NumVariants - 1 ELSE Min(ok)
    IN  [i \in 1 .. (last + 1) |-> AudioSend(s, chunk, i - 1, (i - 1) \in ok)]

\* _send_chunk that ignores the cached format and probes on every send
SendChunkNoCache(s, chunk, io) ==
    IF ~(s.websocket # NoSock /\ s.is_connected) \/ SumSeq(chunk) = 0 THEN s
    ELSE LET ok == IF ~SockOpen(s, s.websocket) THEN {} ELSE Variants \ io.fails
         IN  IF ok # {}
             THEN [s EXCEPT !.successful_payload_format = Min(ok),
                            !.sent = @ \o Probes(s, chunk, ok)]
             ELSE [s EXCEPT !.successful_payload_format = NoFormat,
                            !.is_connected = FALSE,
                            !.sent = @ \o Probes(s, chunk, ok),
                            !.socket_errors = IF Graceful(s) THEN @ ELSE @ + 1]

\* _send_chunk(pcm16), pcm16 the bytes of the frames of chunk; a send on a
\* closed socket raises
SendChunk(s, chunk, io) ==
    IF ~(s.websocket # NoSock /\ s.is_connected) \/ SumSeq(chunk) = 0 THEN s
    ELSE LET dead == ~SockOpen(s, s.websocket)
             cached == s.successful_payload_format
             cachedOk == cached # NoFormat /\ ~dead /\ ~io.cachedFails
             first == IF cached # NoFormat
                      THEN <<AudioSend(s, chunk, cached, cachedOk)>> ELSE <<>>
             ok == IF dead THEN {} ELSE Variants \ io.fails
         IN  IF cachedOk THEN [s EXCEPT !.sent = @ \o first]
             ELSE IF ok # {}
                  THEN [s EXCEPT !.successful_payload_format = Min(ok),
                                 !.sent = @ \o first \o Probes(s, chunk, ok)]
                  ELSE [s EXCEPT !.successful_payload_format = NoFormat,
                                 !.is_connected = FALSE,
                                 !.sent = @ \o first \o Probes(s, chunk, ok),
                                 !.socket_errors =
                                     IF Graceful(s) THEN @ ELSE @ + 1]

\* flush() that stamps _last_flush also when it has nothing to send
FlushStamps(s, io) ==
    IF s.pcm_buffer = <<>> THEN [s EXCEPT !.interval_over = FALSE]
    ELSE [SendChunk([s EXCEPT !.pcm_buffer = <<>>], s.pcm_buffer, io)
             EXCEPT !.interval_over = FALSE]

\* flush()
Flush(s, io) ==
    IF s.pcm_buffer = <<>> THEN s
    ELSE [SendChunk([s EXCEPT !.pcm_buffer = <<>>], s.pcm_buffer, io)
             EXCEPT !.interval_over = FALSE]

\* queue_pcm that keeps the oldest frames of a full FIFO
QueuePcmDropNewest(s, f, io) ==
    IF ~s.is_connected \/ f.len = 0 THEN s
    ELSE IF ~s.conversation_ready
         THEN [s EXCEPT !.pending = IF Len(@) >= MaxPending THEN @ ELSE Append(@, f)]
         ELSE LET b == [s EXCEPT !.pcm_buffer = Append(@, f)]
              IN  IF SumSeq(b.pcm_buffer) >= FlushBytes \/ s.interval_over
                  THEN Flush(b, io) ELSE b

\* queue_pcm that flushes only above the threshold
QueuePcmStrict(s, f, io) ==
    IF ~s.is_connected \/ f.len = 0 THEN s
    ELSE IF ~s.conversation_ready
         THEN LET q == Append(s.pending, f)
              IN  [s EXCEPT !.pending = IF Len(q) > MaxPending THEN Tail(q) ELSE q]
         ELSE LET b == [s EXCEPT !.pcm_buffer = Append(@, f)]
              IN  IF SumSeq(b.pcm_buffer) > FlushBytes \/ s.interval_over
                  THEN Flush(b, io) ELSE b

\* queue_pcm that flushes on the interval only
QueuePcmNoThreshold(s, f, io) ==
    IF ~s.is_connected \/ f.len = 0 THEN s
    ELSE IF ~s.conversation_ready
         THEN LET q == Append(s.pending, f)
              IN  [s EXCEPT !.pending = IF Len(q) > MaxPending THEN Tail(q) ELSE q]
         ELSE LET b == [s EXCEPT !.pcm_buffer = Append(@, f)]
              IN  IF s.interval_over THEN Flush(b, io) ELSE b

\* queue_pcm(pcm16), pcm16 the bytes of frame f
QueuePcm(s, f, io) ==
    IF ~s.is_connected \/ f.len = 0 THEN s
    ELSE IF ~s.conversation_ready
         THEN LET q == Append(s.pending, f)
              IN  [s EXCEPT !.pending = IF Len(q) > MaxPending THEN Tail(q) ELSE q]
         ELSE LET b == [s EXCEPT !.pcm_buffer = Append(@, f)]
              IN  IF SumSeq(b.pcm_buffer) >= FlushBytes \/ s.interval_over
                  THEN Flush(b, io) ELSE b

\* connect() has to open a socket
NeedsConnect(s) == ~(s.is_connected /\ s.websocket # NoSock)

\* _send_init_with_dynamic_variables(): the websocket.send of the
\* conversation_initiation_client_data message on the socket just opened
InitSend(s, initOk) ==
    [sock |-> Len(s.socks) + 1, kind |-> "init", fmt |-> NoFormat, ok |-> initOk,
     ids |-> <<>>, len |-> 0, bytes |-> 0, vars |-> s.dynamic_variables]

\* connect() that never sends the initialization message
ConnectNoInit(s, connOk, initOk) ==
    IF ~NeedsConnect(s) THEN [s |-> s, r |-> TRUE]
    ELSE IF ~connOk THEN [s |-> [s EXCEPT !.is_connected = FALSE], r |-> FALSE]
    ELSE [s |-> [s EXCEPT !.socks = Append(@, [open |-> TRUE, task |-> "run",
                                               code |-> ""]),
                          !.websocket = Len(s.socks) + 1,
                          !.is_connected = TRUE,
                          !.socket_ready = FALSE,
                          !.init_sent = FALSE],
          r |-> TRUE]

\* connect(): websockets.connect succeeds (connOk) or raises; the init message
\* is sent when dynamic variables are set (initOk: that send succeeds)
Connect(s, connOk, initOk) ==
    IF ~NeedsConnect(s) THEN [s |-> s, r |-> TRUE]
    ELSE IF ~connOk THEN [s |-> [s EXCEPT !.is_connected = FALSE], r |-> FALSE]
    ELSE [s |-> [s EXCEPT !.socks = Append(@, [open |-> TRUE, task |-> "run",
                                               code |-> ""]),
                          !.websocket = Len(s.socks) + 1,
                          !.is_connected = TRUE,
                          !.socket_ready = FALSE,
                          !.init_sent = (s.dynamic_variables # Unset /\ initOk),
                          !.sent = IF s.dynamic_variables = Unset THEN @
                                   ELSE Append(@, InitSend(s, initOk))],
          r |-> TRUE]

\* disconnect()
Disconnect(s) ==
    [s EXCEPT !.socks = IF s.websocket = NoSock THEN @
                        ELSE [@ EXCEPT ![s.websocket] =
                                 IF @.open THEN [@ EXCEPT !.open = FALSE,
                                                          !.code = "1000"]
                                 ELSE @],
              !.is_connected = FALSE,
              !.conversation_ready = FALSE,
              !.socket_ready = FALSE]

\* ElevenLabsVoiceHandler.start_conversation() up to its first sleep:
\* r is "true", "false", or "wait" (polling _conversation_ready)
HandlerStart(s, connOk, initOk) ==
    LET c1 == IF ~s.is_connected THEN Connect(s, connOk, initOk)
              ELSE [s |-> s, r |-> TRUE]
    IN  IF ~c1.r THEN [s |-> c1.s, r |-> "false"]
        ELSE IF c1.s.conversation_ready THEN [s |-> c1.s, r |-> "true"]
        ELSE [s |-> c1.s, r |-> "wait"]

\* the guard that keeps the number of sockets within the model's bound
SocketBudget(s, connOk) == (NeedsConnect(s) /\ connOk) => Len(s.socks) < MaxSockets

\* JitsiElevenLabsBridge.cleanup(): flush, then disconnect
BridgeCleanup(s, io) == Disconnect(Flush(s, io))

----------------------------------------------------------------------------
(* StandupVoiceSession: pure steps on one connection's record s *)

WsIsOpen(s) == s.client_state = "CONNECTED"     \* ws_is_open() in _end_session
ClientUp(s) == ~s.peerGone                      \* a send to the client does not raise
HasTranscripts(s) == Len(s.user_transcripts) + Len(s.agent_transcripts) > 0
Ending(s) == \E t \in Threads : s.th[t].stage # "idle"

\* what _end_session would decide at this moment
Snap(s) == IF HasTranscripts(s) /\ s.conversation_started THEN "yes" ELSE "no"
TakeSnap(s) == [s EXCEPT !.endSnap = IF @ = "none" THEN Snap(s) ELSE @]

\* the rms taken from the samples whatever their number
RmsRaw(f) == f.rms

\* the rms _is_speech() returns: 0.0 for a frame without bytes or with fewer
\* than four samples (used == 0), else the rms of the samples it reads
Rms(f) == IF f.len < MinFrameBytes THEN 0 ELSE f.rms

\* _is_speech(): rms > 0.002
IsSpeech(f) == Rms(f) > SpeechRms

\* should_start with the average tested only after frame 30
ShouldStartLate(s, f) ==
    \/ IsSpeech(f)
    \/ (s.pre_start_chunks > AvgChunks /\ s.rms_accum > AvgRms * s.rms_samples)
    \/ s.pre_start_chunks >= AutoChunks

\* should_start in process_audio, after the counters were updated
ShouldStart(s, f) ==
    \/ IsSpeech(f)
    \/ (s.pre_start_chunks >= AvgChunks /\ s.rms_accum > AvgRms * s.rms_samples)
    \/ s.pre_start_chunks >= AutoChunks

\* the reason with the average tested before the frame
ReasonAvgFirst(s) ==
    IF s.rms_accum > AvgRms * s.rms_samples THEN "avg_rms"
    ELSE IF IsSpeech(s.frame) THEN "speech"
    ELSE "auto"

\* reason = "speech" if speech else ("avg_rms" if avg_rms > 0.008 else "auto"),
\* for the frame s.frame that made should_start true
Reason(s) ==
    IF IsSpeech(s.frame) THEN "speech"
    ELSE IF s.rms_accum > AvgRms * s.rms_samples THEN "avg_rms"
    ELSE "auto"

\* _end_session from "if ws_is_open()" on, run by coroutine t
EndRespond(s, t, res) ==
    IF WsIsOpen(s)
    THEN [s EXCEPT !.th[t] = [stage |-> "send", res |-> res]]
    ELSE [s EXCEPT !.is_active = FALSE, !.closed = TRUE, !.th[t] = InitThread]

\* _end_session up to its first suspension, run by coroutine t
EndSession(s, t) ==
    IF ~s.is_active THEN s
    ELSE LET e == [TakeSnap(s) EXCEPT !.endTriggered = TRUE]
         IN  IF HasTranscripts(s) /\ s.conversation_started
             THEN [e EXCEPT !.pipelineCalls = @ + 1,
                            !.th[t] = [stage |-> "pipeline", res |-> FALSE]]
             ELSE EndRespond(e, t, FALSE)

\* process_session_end returned (ok) or raised
EndPipelineDone(s, t, ok) == EndRespond(s, t, ok)

\* websocket.send_json(session_ended) returned or raised; is_active = False
EndSent(s, t) ==
    [s EXCEPT !.sessionEndedSent = IF ClientUp(s) THEN @ + 1 ELSE @,
              !.is_active = FALSE, !.closed = TRUE, !.th[t] = InitThread]

\* _on_audio_response
OnAudioResponse(s) ==
    IF ~s.is_active \/ ClientUp(s) THEN s
    ELSE [TakeSnap(s) EXCEPT !.is_active = FALSE]

\* the entry appended for the event that arrived as the n-th text event
Entry(s, text, n) == [text |-> text, timestamp |-> s.clock, event |-> n]

\* _on_text_response
OnTextResponse(s, text) ==
    IF ~s.is_active THEN s
    ELSE [s EXCEPT !.agent_transcripts = Append(@, Entry(s, text, Len(s.delivered)))]

\* _on_user_transcript
OnUserTranscript(s, text) ==
    IF ~s.is_active THEN s
    ELSE [s EXCEPT !.user_transcripts = Append(@, Entry(s, text, Len(s.delivered)))]

\* _on_error, called through _notify("error", ...)
OnError(s) == [s EXCEPT !.error_events = @ + 1]

\* the readiness flush with the buffered frames put in front
OnMetadataPrepend(s, io) ==
    IF s.conversation_ready THEN s
    ELSE LET r == [s EXCEPT !.conversation_ready = TRUE]
         IN  IF r.pending = <<>> THEN r
             ELSE Flush([r EXCEPT !.pcm_buffer = r.pending \o @,
                                  !.pending = <<>>], io)

\* _handle_event, conversation_initiation_metadata
OnMetadata(s, io) ==
    IF s.conversation_ready THEN s
    ELSE LET r == [s EXCEPT !.conversation_ready = TRUE]
         IN  IF r.pending = <<>> THEN r
             ELSE Flush([r EXCEPT !.pcm_buffer = @ \o r.pending,
                                  !.pending = <<>>], io)

\* the finally block of handle_voice_websocket up to its first suspension:
\* _end_session("websocket_disconnect") if active and started, then cleanup.
\* No await lies between a break (or an exception) and this test.
FinallyBlock(s) ==
    LET r == [TakeSnap(s) EXCEPT !.endRet = "finally"]
    IN  IF r.is_active /\ r.conversation_started
        THEN LET e == EndSession(r, 0)
             IN  [e EXCEPT !.pc = IF e.th[0].stage # "idle" THEN "ending"
                                  ELSE "cleanup"]
        ELSE [r EXCEPT !.pc = "cleanup"]

\* where the handler goes when the coroutine leaves _end_session: after
\* "stop" it breaks out of the loop into the finally block
AfterEnd(s) ==
    IF s.th[0].stage # "idle" THEN [s EXCEPT !.pc = "ending"]
    ELSE IF s.endRet = "stop" THEN FinallyBlock(s)
    ELSE [s EXCEPT !.pc = "cleanup"]

\* the handler continues the message loop, or leaves it when a send to the
\* client raised
LoopOrBreak(s) ==
    IF ClientUp(s) THEN [s EXCEPT !.pc = "loop"] ELSE FinallyBlock(s)

\* start_agent after bridge.start_conversation() returned ok
JoinDone(s, ok) ==
    IF ok
    THEN LoopOrBreak([s EXCEPT !.started = TRUE, !.start_time = TRUE,
                               !.conversation_started = TRUE,
                               !.lastOp = [kind |-> "joined", result |-> "ok",
                                           notified |-> TRUE],
                               !.waitKind = ""])
    ELSE [s EXCEPT !.started = FALSE, !.waitKind = "",
                   !.lastOp = [kind |-> "joined", result |-> "timeout",
                               notified |-> FALSE],
                   !.pc = "loop"]

\* force_start that marks the session's conversation as started
ForceDoneStarts(s, ok) ==
    LoopOrBreak([s EXCEPT !.started = ok, !.waitKind = "",
                          !.conversation_started = @ \/ ok,
                          !.ctl.reply = <<[type |-> "status", started |-> ok]>>,
                          !.lastOp = [kind |-> "force",
                                      result |-> IF ok THEN "ok" ELSE "timeout",
                                      notified |-> TRUE]])

\* force_start after bridge.start_conversation() returned ok
ForceDone(s, ok) ==
    LoopOrBreak([s EXCEPT !.started = ok, !.waitKind = "",
                          !.ctl.reply = <<[type |-> "status", started |-> ok]>>,
                          !.lastOp = [kind |-> "force",
                                      result |-> IF ok THEN "ok" ELSE "timeout",
                                      notified |-> TRUE]])

\* process_audio after bridge.start_conversation() returned ok
AudioDone(s, ok, io) ==
    LET a == IF ok THEN [s EXCEPT !.started = TRUE, !.start_time = TRUE,
                                  !.conversation_started = TRUE,
                                  !.gate.reason = Reason(s)]
             ELSE [s EXCEPT !.started = FALSE]
        b == [a EXCEPT !.pc = "loop", !.waitKind = "", !.frame = NoFrame,
                       !.lastOp = [kind |-> "audio",
                                   result |-> IF ok THEN "ok" ELSE "timeout",
                                   notified |-> ok]]
    IN  IF ~ok \/ ~ClientUp(s) THEN b ELSE QueuePcm(b, s.frame, io)

----------------------------------------------------------------------------
(* handle_voice_websocket: the client-facing coroutine of connection c *)

Set(c, s) == S' = [S EXCEPT ![c] = s]

NoOp == [kind |-> "", result |-> "", notified |-> FALSE]

\* a message was received by "message = await websocket.receive()"
Received(s) == [s EXCEPT !.msgs = @ + 1, !.pc = "loop"]

CanReceive(c) ==
    /\ S[c].pc = "recv"
    /\ ~S[c].peerGone
    /\ S[c].msgs < MaxClientMsgs

\* websocket.accept(); session = StandupVoiceSession(...); registry insert
Accept(c, id, team) ==
    /\ S[c].pc = "new"
    /\ Set(c, [S[c] EXCEPT !.pc = "init", !.sid = id, !.team_id = team,
                           !.client_state = "CONNECTED"])
    /\ registry' = [registry EXCEPT ![id] = c]

\* session.initialize(agent_id); bridgeOk: the bridge could be constructed
Initialize(c, bridgeOk) ==
    /\ S[c].pc = "init"
    /\ Set(c, IF ~bridgeOk THEN FinallyBlock(S[c])
              ELSE LoopOrBreak([S[c] EXCEPT !.bridge = TRUE, !.is_active = TRUE,
                                            !.initialized = TRUE]))
    /\ UNCHANGED registry

\* while session.is_active:
LoopCheck(c) ==
    /\ S[c].pc = "loop"
    /\ LET r == [S[c] EXCEPT !.lastOp = NoOp, !.gate = InitConn.gate, !.join = NoJoin,
                         !.ctl = NoCtl]
       IN  Set(c, IF r.is_active THEN [r EXCEPT !.pc = "recv"] ELSE FinallyBlock(r))
    /\ UNCHANGED registry

\* the client goes away (environment)
PeerGone(c) ==
    /\ S[c].pc \notin {"new", "done"}
    /\ ~S[c].peerGone
    /\ Set(c, [S[c] EXCEPT !.peerGone = TRUE])
    /\ UNCHANGED registry

\* receive() yields websocket.disconnect or raises WebSocketDisconnect
RecvDisconnect(c) ==
    /\ S[c].pc = "recv"
    /\ S[c].peerGone
    /\ Set(c, FinallyBlock([S[c] EXCEPT !.client_state = "DISCONNECTED"]))
    /\ UNCHANGED registry

\* "ping" -> pong, "get_transcripts" -> transcripts
RecvQuery(c) ==
    /\ S[c].pc = "recv" /\ ~S[c].peerGone
    /\ Set(c, [S[c] EXCEPT !.pc = "loop"])
    /\ UNCHANGED registry

\* text that is not JSON (ignored), or an unknown type
RecvIgnored(c) ==
    /\ S[c].pc = "recv" /\ ~S[c].peerGone
    /\ Set(c, [S[c] EXCEPT !.pc = "loop"])
    /\ UNCHANGED registry

\* a message whose handling raises (JSON that is not an object): break
RecvMalformed(c) ==
    /\ CanReceive(c)
    /\ Set(c, FinallyBlock(Received(S[c])))
    /\ UNCHANGED registry

\* "stop": _end_session("user_stopped"); break
RecvStop(c) ==
    /\ CanReceive(c)
    /\ Set(c, AfterEnd(EndSession([Received(S[c]) EXCEPT !.endRet = "stop"], 0)))
    /\ UNCHANGED registry

\* bridge.start_conversation() up to the handler's first sleep: r is "true",
\* "false", or "wait" (the handler polls _conversation_ready)
StartConversation(s, connOk, initOk) ==
    IF s.started THEN [s |-> s, r |-> "true"]
    ELSE HandlerStart(s, connOk, initOk)

\* the caller of start_conversation suspends in the readiness poll
Polling(s, kind) == [s EXCEPT !.pc = "wait", !.waitKind = kind]

\* str(n)
RECURSIVE DecimalString(_)
DecimalString(n) ==
    LET digits == <<"0", "1", "2", "3", "4", "5", "6", "7", "8", "9">>
    IN  IF n < 10 THEN digits[n + 1]
        ELSE DecimalString(n \div 10) \o digits[(n % 10) + 1]

\* "issues_count": str(len(self.issues_context)) of the variables built from
\* v issues
IssuesCount(v) == DecimalString(v)

\* start_agent(issues_context) up to bridge.initialize()
StartAgentContext(s, n, fetch) ==
    LET ctx == IF n > 0 THEN n
               ELSE IF s.team_id THEN (IF fetch = Unset THEN 0 ELSE fetch)
               ELSE 0
    IN  [s EXCEPT !.issues_context = ctx,
                  !.dynamic_variables = IF ctx > 0 THEN ctx ELSE @,
                  !.join = [topics |-> n, asked |-> (n = 0 /\ s.team_id),
                            fetched |-> IF n = 0 /\ s.team_id THEN fetch ELSE Unset]]

\* "user_joined": start_agent(issues_context)
RecvJoined(c, n, fetch, connOk, initOk) ==
    /\ CanReceive(c)
    /\ SocketBudget(S[c], connOk)
    /\ LET r == [Received(S[c]) EXCEPT !.joinedSeen = TRUE]
       IN  Set(c, IF ~r.bridge \/ r.conversation_started THEN r
                  ELSE LET k == Connect(StartAgentContext(r, n, fetch), connOk, initOk)
                       IN  IF ~k.r
                           THEN LoopOrBreak([k.s EXCEPT !.lastOp =
                                                [kind |-> "joined",
                                                 result |-> "connect_fail",
                                                 notified |-> TRUE]])
                           ELSE LET h == StartConversation(k.s, connOk, initOk)
                                IN  IF h.r = "wait" THEN Polling(h.s, "joined")
                                    ELSE JoinDone(h.s, h.r = "true"))
    /\ UNCHANGED registry

\* "force_start"
RecvForceStart(c, connOk, initOk) ==
    /\ CanReceive(c)
    /\ SocketBudget(S[c], connOk)
    /\ LET r == [Received(S[c]) EXCEPT !.forceSeen = TRUE, !.ctl.type = "force_start"]
       IN  Set(c, IF ~(r.bridge /\ ~r.started) THEN r
                  ELSE LET h == StartConversation(r, connOk, initOk)
                       IN  IF h.r = "wait" THEN Polling(h.s, "force")
                           ELSE ForceDone(h.s, h.r = "true"))
    /\ UNCHANGED registry

\* "ping": websocket.send_json({"type": "pong"})
RecvPing(c) ==
    /\ CanReceive(c)
    /\ Set(c, LoopOrBreak([Received(S[c]) EXCEPT
                              !.ctl = [type |-> "ping",
                                       reply |-> <<[type |-> "pong"]>>]]))
    /\ UNCHANGED registry

\* "get_transcripts": websocket.send_json of session.get_transcripts()
RecvGetTranscripts(c) ==
    /\ CanReceive(c)
    /\ Set(c, LoopOrBreak([Received(S[c]) EXCEPT
                              !.ctl = [type |-> "get_transcripts",
                                       reply |-> <<[type |-> "transcripts",
                                                    user |-> S[c].user_transcripts,
                                                    agent |-> S[c].agent_transcripts]>>]]))
    /\ UNCHANGED registry

\* session.process_audio(audio_data), f the frame as the r.msgs-th message
ProcessAudio(r, f, connOk, initOk, io) ==
    IF ~r.is_active \/ ~r.bridge THEN r
    ELSE IF r.started THEN QueuePcm(r, Stamp(f, r.msgs), io)
    ELSE LET k == [r EXCEPT !.pre_start_chunks = @ + 1,
                            !.rms_accum = @ + Rms(f),
                            !.rms_samples = @ + 1]
             g == [k EXCEPT !.gate = [frame |-> Stamp(f, r.msgs),
                                      start |-> ShouldStart(k, f), reason |-> ""]]
         IN  IF g.gate.start
             THEN LET h == StartConversation([g EXCEPT !.frame = Stamp(f, r.msgs)],
                                             connOk, initOk)
                  IN  IF h.r = "wait" THEN Polling(h.s, "audio")
                      ELSE AudioDone(h.s, h.r = "true", io)
             ELSE g

\* binary frame: session.process_audio(audio_data)
RecvAudio(c, f, connOk, initOk, io) ==
    /\ CanReceive(c)
    /\ SocketBudget(S[c], connOk)
    /\ Set(c, ProcessAudio(Received(S[c]), f, connOk, initOk, io))
    /\ UNCHANGED registry

\* a binary frame while the conversation has not started
GateAudio(c, f, connOk, initOk, io) ==
    /\ S[c].pc = "recv"
    /\ ~S[c].started
    /\ S[c].pre_start_chunks < MaxGateFrames
    /\ SocketBudget(S[c], connOk)
    /\ Set(c, ProcessAudio(Received(S[c]), f, connOk, initOk, io))
    /\ UNCHANGED registry

\* start_conversation(): the poll finds _conversation_ready set
WaitReady(c, io) ==
    /\ S[c].pc = "wait"
    /\ S[c].conversation_ready
    /\ Set(c, CASE S[c].waitKind = "joined" -> JoinDone(S[c], TRUE)
                [] S[c].waitKind = "force" -> ForceDone(S[c], TRUE)
                [] OTHER -> AudioDone(S[c], TRUE, io))
    /\ UNCHANGED registry

\* start_conversation(): 5 s passed
WaitTimeout(c, io) ==
    /\ S[c].pc = "wait"
    /\ Set(c, CASE S[c].waitKind = "joined" -> JoinDone(S[c], FALSE)
                [] S[c].waitKind = "force" -> ForceDone(S[c], FALSE)
                [] OTHER -> AudioDone(S[c], FALSE, io))
    /\ UNCHANGED registry

\* session.cleanup()
Cleanup(c, io) ==
    /\ S[c].pc = "cleanup"
    /\ LET r == [S[c] EXCEPT !.is_active = FALSE, !.pc = "unregister"]
       IN  Set(c, IF r.bridge THEN BridgeCleanup(r, io) ELSE r)
    /\ UNCHANGED registry

\* if standup_id in active_voice_sessions: del active_voice_sessions[standup_id]
Unregister(c) ==
    /\ S[c].pc = "unregister"
    /\ Set(c, [S[c] EXCEPT !.pc = "done"])
    /\ registry' = [registry EXCEPT ![S[c].sid] = 0]

----------------------------------------------------------------------------
(* _end_session continued, by the handler (t = 0) or by a listener (t = k) *)

InEnd(c, t, stage) ==
    /\ S[c].th[t].stage = stage
    /\ IF t = 0 THEN S[c].pc = "ending"
       ELSE t <= Len(S[c].socks) /\ S[c].socks[t].task = "run"

Resume(s, t) == IF t = 0 THEN AfterEnd(s) ELSE s

\* standup_summary_service.process_session_end(...) returns or raises
PipelineReturn(c, t, ok) ==
    /\ InEnd(c, t, "pipeline")
    /\ Set(c, Resume(EndPipelineDone(S[c], t, ok), t))
    /\ UNCHANGED registry

\* the session_ended send is over
SessionEndedSent(c, t) ==
    /\ InEnd(c, t, "send")
    /\ Set(c, Resume(EndSent(S[c], t), t))
    /\ UNCHANGED registry

----------------------------------------------------------------------------
(* ElevenLabsVoiceHandler._listen: the task of socket k of connection c *)

Events == {"metadata", "audio", "agent_text", "user_transcript", "end_call",
           "error", "ping", "nonjson"}

\* the text events of _handle_event: an agent_response_event, a top-level
\* "user_transcript" or user_transcription_event, and an event of type
\* "user_transcript" that carries its words in a top-level "text"
TextEvents == {"agent_text", "user_transcript", "user_text"}

\* the length of the text an event carries
EventText == 13

\* _handle_event is given a text event while the session is active
Arrival(s, ev) == IF ~s.is_active THEN s ELSE [s EXCEPT !.delivered = Append(@, ev)]

Listening(c, k) ==
    /\ k \in 1 .. Len(S[c].socks)
    /\ S[c].socks[k].task = "run"
    /\ S[c].th[k].stage = "idle"

\* _handle_event(data) for one frame read from socket k
HandleEvent(s, k, ev, io) ==
    CASE ev = "metadata" -> OnMetadata([s EXCEPT !.socket_ready = @ \/ k = s.websocket], io)
      [] ev = "audio" -> OnAudioResponse(s)
      [] ev = "agent_text" -> OnTextResponse(Arrival(s, ev), EventText)
      [] ev = "user_transcript" -> OnUserTranscript(Arrival(s, ev), EventText)
      [] ev = "user_text" ->
             OnUserTranscript(OnTextResponse(Arrival(s, ev), EventText), EventText)
      [] ev = "end_call" -> EndSession(s, k)
      [] ev = "error" -> OnError(s)
      [] OTHER -> s

UpEvent(c, k, ev, io) ==
    /\ Listening(c, k)
    /\ S[c].socks[k].open
    /\ ev \in {"agent_text", "user_transcript"} =>
           Len(S[c].user_transcripts) + Len(S[c].agent_transcripts) < MaxTranscripts
    /\ ev = "error" => S[c].error_events < MaxErrorEvents
    /\ Set(c, HandleEvent(S[c], k, ev, io))
    /\ UNCHANGED registry

\* _listen reads a frame json.loads rejects: a text frame that is not JSON
\* raises JSONDecodeError ("continue"); a binary frame that is not UTF-8
\* raises UnicodeDecodeError, which only the outer handler catches, and the
\* finally clause runs
Undecodable(s, k, how) ==
    LET r == [s EXCEPT !.undecodable = @ + 1]
    IN  IF how = "text" THEN r
        ELSE [r EXCEPT !.socks[k].task = "done", !.is_connected = FALSE]

UndecodableFrame(c, k, how) ==
    /\ Listening(c, k)
    /\ S[c].socks[k].open
    /\ S[c].undecodable < MaxUndecodable
    /\ Set(c, Undecodable(S[c], k, how))
    /\ UNCHANGED registry

\* a ping event read from socket k: _notify("ping", data) finds no callback
\* registered under "ping" and returns
PingEvent(c, k) ==
    /\ Listening(c, k)
    /\ S[c].socks[k].open
    /\ S[c].pings < MaxPings
    /\ Set(c, [HandleEvent(S[c], k, "ping", SendOk) EXCEPT !.pings = @ + 1])
    /\ UNCHANGED registry

\* a text event read from socket k
TextEvent(c, k, ev) ==
    /\ Listening(c, k)
    /\ S[c].socks[k].open
    /\ Len(S[c].delivered) < MaxDelivered
    /\ Set(c, HandleEvent(S[c], k, ev, SendOk))
    /\ UNCHANGED registry

\* the wall clock time.time() reads moves on, or is set back (environment)
ClockSet(c, t) ==
    /\ S[c].clock # t
    /\ Set(c, [S[c] EXCEPT !.clock = t])
    /\ UNCHANGED registry

\* the upstream closes socket k with close code 1000 (how = "1000"), or the
\* socket fails (how = "error") (environment)
SockClose(c, k, how) ==
    /\ k \in 1 .. Len(S[c].socks)
    /\ S[c].socks[k].open
    /\ Set(c, [S[c] EXCEPT !.socks[k].open = FALSE, !.socks[k].code = how])
    /\ UNCHANGED registry

\* "async for raw in self.websocket" ends, normally after a close with code
\* 1000, with ConnectionClosed otherwise; finally: is_connected = False
ListenerExit(c, k) ==
    /\ Listening(c, k)
    /\ ~S[c].socks[k].open
    /\ Set(c, [S[c] EXCEPT !.socks[k].task = "done", !.is_connected = FALSE,
                           !.socket_errors =
                               IF S[c].socks[k].code = "1000" THEN @ ELSE @ + 1])
    /\ UNCHANGED registry

----------------------------------------------------------------------------
(* Specifications *)

\* The outcomes the environment can choose where the step reads them
ConnOutcomes(s) == IF NeedsConnect(s) THEN BOOLEAN ELSE {TRUE}
InitOutcomes(s, In) ==
    IF NeedsConnect(s) /\ s.dynamic_variables # Unset THEN In.inits ELSE {TRUE}
SendOutcomes(s, In) == IF s.is_connected THEN In.sends ELSE {SendOk}

\* One step of connection c; In holds the sets the inputs are drawn from
Step(c, In) ==
    \/ \E id \in In.ids, team \in In.teams : Accept(c, id, team)
    \/ \E b \in BOOLEAN : Initialize(c, b)
    \/ LoopCheck(c)
    \/ PeerGone(c)
    \/ RecvDisconnect(c)
    \/ RecvQuery(c)
    \/ RecvIgnored(c)
    \/ RecvMalformed(c)
    \/ RecvStop(c)
    \/ \E n \in In.issues, fetch \in In.fetches, co \in ConnOutcomes(S[c]),
          io \in In.inits : RecvJoined(c, n, fetch, co, io)
    \/ \E co \in ConnOutcomes(S[c]), io \in InitOutcomes(S[c], In) :
          RecvForceStart(c, co, io)
    \/ \E f \in In.frames, co \in ConnOutcomes(S[c]), i \in InitOutcomes(S[c], In),
          io \in In.sends : RecvAudio(c, f, co, i, io)
    \/ \E io \in SendOutcomes(S[c], In) : WaitReady(c, io)
    \/ \E io \in SendOutcomes(S[c], In) : WaitTimeout(c, io)
    \/ \E io \in SendOutcomes(S[c], In) : Cleanup(c, io)
    \/ Unregister(c)
    \/ \E t \in Threads, ok \in BOOLEAN : PipelineReturn(c, t, ok)
    \/ \E t \in Threads : SessionEndedSent(c, t)
    \/ \E k \in 1 .. MaxSockets, ev \in Events, io \in SendOutcomes(S[c], In) :
          UpEvent(c, k, ev, io)
    \/ \E k \in 1 .. MaxSockets, how \in In.closes : SockClose(c, k, how)
    \/ \E k \in 1 .. MaxSockets : ListenerExit(c, k)

\* One session, every operation of the session and of its upstream client
SessionInputs == [ids |-> {"s1"}, teams |-> {TRUE}, issues |-> {2},
                  fetches |-> {2}, inits |-> {TRUE},
                  frames |-> {SpeechFrame},
                  sends |-> {SendOk, SendFails}, closes |-> {"error"}]

Next == Step(1, SessionInputs)

Spec == Init /\ [][Next]_vars

\* An ElevenLabsVoiceHandler driven directly through its methods, as its
\* owner may call them: connection c's record holds the handler
HSetVariables(c, v) ==
    /\ S[c].pc = "new"
    /\ S[c].dynamic_variables # v
    /\ Set(c, [S[c] EXCEPT !.dynamic_variables = v])
    /\ UNCHANGED registry

\* connect()
HConnect(c, connOk, initOk) ==
    /\ S[c].pc = "new"
    /\ NeedsConnect(S[c])
    /\ SocketBudget(S[c], connOk)
    /\ Set(c, Connect(S[c], connOk, initOk).s)
    /\ UNCHANGED registry

\* queue_pcm(pcm16): the call is the (queue_calls + 1)-th
HQueue(c, f, io, max) ==
    /\ S[c].pc = "new"
    /\ S[c].queue_calls < max
    /\ LET g == Stamp(f, S[c].queue_calls + 1)
       IN  Set(c, QueuePcm([S[c] EXCEPT !.queue_calls = @ + 1, !.frame = g], g, io))
    /\ UNCHANGED registry

\* flush()
HFlush(c, io) ==
    /\ S[c].pc = "new"
    /\ S[c].pcm_buffer # <<>>
    /\ Set(c, Flush(S[c], io))
    /\ UNCHANGED registry

\* flush(), whatever the buffer holds
HFlushCall(c, io) ==
    /\ S[c].pc = "new"
    /\ S[c].pcm_buffer = <<>> => S[c].empty_flushes < MaxEmptyFlushes
    /\ Set(c, [Flush(S[c], io) EXCEPT
                  !.empty_flushes = IF S[c].pcm_buffer = <<>> THEN @ + 1 ELSE @])
    /\ UNCHANGED registry

\* disconnect()
HDisconnect(c) ==
    /\ S[c].pc = "new"
    /\ S[c].is_connected
    /\ Set(c, Disconnect(S[c]))
    /\ UNCHANGED registry

\* more than 0.1 s pass since the last flush (environment)
Tick(c) ==
    /\ ~S[c].interval_over
    /\ Set(c, [S[c] EXCEPT !.interval_over = TRUE])
    /\ UNCHANGED registry

\* Audio path: frames of several lengths, sends that work or fail as a whole,
\* reconnects, the flush interval
AudioInputs == [inits |-> {TRUE},
                frames |-> {SilentFrame, OddFrame, NoFrame},
                sends |-> {SendOk, SendFails}]

NextAudio ==
    \/ \E co \in BOOLEAN, io \in InitOutcomes(S[1], AudioInputs) : HConnect(1, co, io)
    \/ \E f \in AudioInputs.frames, io \in SendOutcomes(S[1], AudioInputs) :
          HQueue(1, f, io, MaxAudioFrames)
    \/ \E io \in SendOutcomes(S[1], AudioInputs) : HFlush(1, io)
    \/ HDisconnect(1)
    \/ Tick(1)
    \/ \E k \in 1 .. MaxSockets, io \in SendOutcomes(S[1], AudioInputs) :
          UpEvent(1, k, "metadata", io)

SpecAudio == Init /\ [][NextAudio]_vars

\* flush() called at any moment of a handler's life
FlushInputs == [inits |-> {TRUE}, frames |-> {SilentFrame, OddFrame},
                sends |-> {SendOk, SendFails}]

NextFlush ==
    \/ \E co \in BOOLEAN, io \in InitOutcomes(S[1], FlushInputs) : HConnect(1, co, io)
    \/ \E f \in FlushInputs.frames, io \in SendOutcomes(S[1], FlushInputs) :
          HQueue(1, f, io, MaxAudioFrames)
    \/ \E io \in SendOutcomes(S[1], FlushInputs) : HFlushCall(1, io)
    \/ HDisconnect(1)
    \/ Tick(1)
    \/ \E k \in 1 .. MaxSockets, io \in SendOutcomes(S[1], FlushInputs) :
          UpEvent(1, k, "metadata", io)

SpecFlush == Init /\ [][NextFlush]_vars

\* Pre-readiness FIFO: enough frames to overflow it
FifoInputs == [inits |-> {TRUE}, frames |-> {SilentFrame}, sends |-> {SendOk}]

NextFifo ==
    \/ \E co \in BOOLEAN, io \in InitOutcomes(S[1], FifoInputs) : HConnect(1, co, io)
    \/ \E f \in FifoInputs.frames, io \in SendOutcomes(S[1], FifoInputs) :
          HQueue(1, f, io, MaxFifoFrames)
    \/ HDisconnect(1)
    \/ \E k \in 1 .. MaxSockets, io \in SendOutcomes(S[1], FifoInputs) :
          UpEvent(1, k, "metadata", io)

SpecFifo == Init /\ [][NextFifo]_vars

\* Payload format negotiation and socket failures: every way the candidates
\* can fail, sockets that close gracefully or fail
SendFirstFails == [cachedFails |-> FALSE, fails |-> {0}]
SendCachedFails == [cachedFails |-> TRUE, fails |-> {}]
SendOnlyLast == [cachedFails |-> TRUE, fails |-> {0, 1, 2}]

FormatInputs == [inits |-> {TRUE}, frames |-> {SpeechFrame},
                 sends |-> {SendOk, SendFails, SendFirstFails, SendCachedFails,
                            SendOnlyLast}]

NextFormat ==
    \/ \E co \in BOOLEAN, io \in InitOutcomes(S[1], FormatInputs) : HConnect(1, co, io)
    \/ \E f \in FormatInputs.frames, io \in SendOutcomes(S[1], FormatInputs) :
          HQueue(1, f, io, MaxFormatFrames)
    \/ \E k \in 1 .. MaxSockets, ev \in {"metadata", "error"},
          io \in SendOutcomes(S[1], FormatInputs) : UpEvent(1, k, ev, io)
    \/ \E k \in 1 .. MaxSockets, how \in {"1000", "error"} : SockClose(1, k, how)
    \/ \E k \in 1 .. MaxSockets : ListenerExit(1, k)

SpecFormat == Init /\ [][NextFormat]_vars

\* Initialization message: variables set or not before connecting, the init
\* send working or failing, audio afterwards
InitInputs == [inits |-> BOOLEAN, frames |-> {SpeechFrame}, sends |-> {SendOk}]

NextInitMsg ==
    \/ \E v \in {Unset, 2} : HSetVariables(1, v)
    \/ \E co \in BOOLEAN, io \in InitOutcomes(S[1], InitInputs) : HConnect(1, co, io)
    \/ \E f \in InitInputs.frames, io \in SendOutcomes(S[1], InitInputs) :
          HQueue(1, f, io, MaxFormatFrames)
    \/ HDisconnect(1)
    \/ \E k \in 1 .. MaxSockets, io \in SendOutcomes(S[1], InitInputs) :
          UpEvent(1, k, "metadata", io)

SpecInitMsg == Init /\ [][NextInitMsg]_vars

\* Transcripts: one session, text events of every kind from its upstream
\* socket, a wall clock that moves in both directions
NextTranscript ==
    \/ Accept(1, "s1", TRUE)
    \/ Initialize(1, TRUE)
    \/ LoopCheck(1)
    \/ \E co \in ConnOutcomes(S[1]) : RecvForceStart(1, co, TRUE)
    \/ \E io \in {SendOk} : WaitTimeout(1, io)
    \/ \E k \in 1 .. MaxSockets, ev \in TextEvents : TextEvent(1, k, ev)
    \/ \E t \in Stamps : ClockSet(1, t)

SpecTranscript == Init /\ [][NextTranscript]_vars

\* Joining: user_joined with and without a topic list, a tracker that
\* answers two issues, none, or fails, upstreams that connect or not and
\* become ready or not
JoinInputs == [inits |-> {TRUE}, issues |-> {0, 3}, fetches |-> {Unset, 0, 2},
               sends |-> {SendOk}]

NextJoin ==
    \/ Accept(1, "s1", TRUE)
    \/ Initialize(1, TRUE)
    \/ LoopCheck(1)
    \/ \E n \in JoinInputs.issues, fetch \in JoinInputs.fetches,
          co \in ConnOutcomes(S[1]), io \in JoinInputs.inits :
          RecvJoined(1, n, fetch, co, io)
    \/ \E io \in JoinInputs.sends : WaitReady(1, io)
    \/ \E io \in JoinInputs.sends : WaitTimeout(1, io)
    \/ \E k \in 1 .. MaxSockets, io \in JoinInputs.sends : UpEvent(1, k, "metadata", io)

SpecJoin == Init /\ [][NextJoin]_vars

\* Control messages: user_joined, ping, force_start and get_transcripts in
\* any order, with transcripts arriving from the upstream
ControlInputs == [inits |-> {TRUE}, issues |-> {2}, fetches |-> {2}, sends |-> {SendOk}]

NextControl ==
    \/ Accept(1, "s1", TRUE)
    \/ Initialize(1, TRUE)
    \/ LoopCheck(1)
    \/ \E n \in ControlInputs.issues, fetch \in ControlInputs.fetches,
          co \in ConnOutcomes(S[1]), io \in ControlInputs.inits :
          RecvJoined(1, n, fetch, co, io)
    \/ \E co \in ConnOutcomes(S[1]), io \in InitOutcomes(S[1], ControlInputs) :
          RecvForceStart(1, co, io)
    \/ RecvPing(1)
    \/ RecvGetTranscripts(1)
    \/ \E io \in ControlInputs.sends : WaitReady(1, io)
    \/ \E io \in ControlInputs.sends : WaitTimeout(1, io)
    \/ \E k \in 1 .. MaxSockets, ev \in {"metadata", "agent_text", "user_transcript"},
          io \in ControlInputs.sends : UpEvent(1, k, ev, io)

SpecControl == Init /\ [][NextControl]_vars

\* The listener: frames that cannot be decoded between events that can
NextListen ==
    \/ Accept(1, "s1", TRUE)
    \/ Initialize(1, TRUE)
    \/ LoopCheck(1)
    \/ \E co \in ConnOutcomes(S[1]) : RecvForceStart(1, co, TRUE)
    \/ \E io \in {SendOk} : WaitReady(1, io)
    \/ \E io \in {SendOk} : WaitTimeout(1, io)
    \/ \E k \in 1 .. MaxSockets, ev \in {"metadata", "agent_text"}, io \in {SendOk} :
          UpEvent(1, k, ev, io)
    \/ \E k \in 1 .. MaxSockets, how \in {"text", "bytes"} : UndecodableFrame(1, k, how)

SpecListen == Init /\ [][NextListen]_vars

\* Keepalive: pings of the upstream between the other events of a connection
NextKeepalive ==
    \/ NextListen
    \/ \E k \in 1 .. MaxSockets : PingEvent(1, k)

SpecKeepalive == Init /\ [][NextKeepalive]_vars

\* The start gate: one session whose client sends silent and loud frames
\* until the conversation starts; connecting may fail and readiness may
\* arrive or not before the poll gives up
GateInputs == [inits |-> {TRUE}, frames |-> {SilentFrame, LoudFrame}, sends |-> {SendOk}]

\* one step of the session in front of the gate, its frames drawn from In
GateStep(In) ==
    \/ Accept(1, "s1", TRUE)
    \/ Initialize(1, TRUE)
    \/ LoopCheck(1)
    \/ \E f \in In.frames, co \in ConnOutcomes(S[1]),
          i \in InitOutcomes(S[1], In), io \in In.sends :
          GateAudio(1, f, co, i, io)
    \/ \E io \in In.sends : WaitReady(1, io)
    \/ \E io \in In.sends : WaitTimeout(1, io)
    \/ \E k \in 1 .. MaxSockets, io \in In.sends : UpEvent(1, k, "metadata", io)

NextGate == GateStep(GateInputs)

SpecGate == Init /\ [][NextGate]_vars

\* The gate in front of a client whose every frame is above the average
\* threshold
SustainedInputs == [inits |-> {TRUE}, frames |-> {LoudFrame, MurmurFrame},
                    sends |-> {SendOk}]

NextSustained == GateStep(SustainedInputs)

SpecSustained == Init /\ [][NextSustained]_vars

\* The gate in front of a client that sends only frames of zeros, frames
\* without bytes and frames of fewer than four samples
DegenerateInputs == [inits |-> {TRUE}, frames |-> {SilentFrame, NoFrame, TinyFrame},
                     sends |-> {SendOk}]

NextDegenerate == GateStep(DegenerateInputs)

SpecDegenerate == Init /\ [][NextDegenerate]_vars

\* Two connections, possibly with the same standup id: the handler's life cycle
\* (accept, initialize, message loop exits, cleanup, registry removal)
RegistryInputs == [ids |-> Ids, teams |-> {FALSE}]

RegistryStep(c) ==
    \/ \E id \in RegistryInputs.ids, team \in RegistryInputs.teams : Accept(c, id, team)
    \/ \E b \in BOOLEAN : Initialize(c, b)
    \/ LoopCheck(c)
    \/ PeerGone(c)
    \/ RecvDisconnect(c)
    \/ RecvMalformed(c)
    \/ RecvStop(c)
    \/ SessionEndedSent(c, 0)
    \/ Cleanup(c, SendOk)
    \/ Unregister(c)

NextRegistry == \E c \in Conns : RegistryStep(c)

SpecRegistry == Init /\ [][NextRegistry]_vars

----------------------------------------------------------------------------
(* StandupSummaryService.process_session_end on the transcripts of one      *)
(* session.  A text is modelled by its length in characters, a transcript   *)
(* entry is [text, timestamp], the conversation is the sequence of its      *)
(* lines.  io is what the collaborators answer: io.extract for the call of  *)
(* the reasoning backend in _extract_issue_updates, io.steps[i] for the     *)
(* tracker calls of the i-th update, io.summary and io.slack.               *)

Entries == [text : TextLens, timestamp : Stamps]

\* the timestamps of q do not decrease
Sorted(q) == \A i \in 1 .. (Len(q) - 1) : q[i].timestamp <= q[i + 1].timestamp

RECURSIVE ListsOf(_)
ListsOf(n) ==
    IF n = 0 THEN {<<>>}
    ELSE ListsOf(n - 1) \cup [1 .. n -> Entries]

\* all_messages.sort(key=timestamp): the stable sort of q
RECURSIVE SortByTimestamp(_)
SortByTimestamp(q) ==
    IF q = <<>> THEN <<>>
    ELSE LET ts == {q[i].timestamp : i \in 1 .. Len(q)}
             lo == CHOOSE x \in ts : \A y \in ts : x <= y
         IN  SelectSeq(q, LAMBDA m : m.timestamp = lo)
             \o SortByTimestamp(SelectSeq(q, LAMBDA m : m.timestamp # lo))

\* _format_conversation without the sort: the user's lines, then the agent's
FormatConversationUnsorted(user, agent) ==
    LET tag(q, who) == [i \in 1 .. Len(q) |->
                           [speaker |-> who, text |-> q[i].text,
                            timestamp |-> q[i].timestamp]]
    IN  SelectSeq(tag(user, "Developer") \o tag(agent, "AI Moderator"),
                  LAMBDA m : m.text # 0)

\* _format_conversation: the lines "speaker: text" of the entries with a
\* non-empty text, by timestamp
FormatConversation(user, agent) ==
    LET tag(q, who) == [i \in 1 .. Len(q) |->
                           [speaker |-> who, text |-> q[i].text,
                            timestamp |-> q[i].timestamp]]
        all == SortByTimestamp(tag(user, "Developer") \o tag(agent, "AI Moderator"))
    IN  SelectSeq(all, LAMBDA m : m.text # 0)

SpeakerLen(who) == IF who = "Developer" THEN DeveloperLen ELSE ModeratorLen

\* len("\n".join(lines))
RECURSIVE ConversationLen(_)
ConversationLen(lines) ==
    IF lines = <<>> THEN 0
    ELSE SpeakerLen(Head(lines).speaker) + SeparatorLen + Head(lines).text
         + (IF Len(lines) > 1 THEN NewlineLen ELSE 0)
         + ConversationLen(Tail(lines))

NoCalls == [llm |-> 0, tracker |-> 0, slack |-> 0]

\* the SummaryResult of the early return, with what is observed of the call:
\* the calls made to each collaborator, how the extraction call went, and the
\* calls in order: [upd, call, outcome], upd the position of the update the
\* call was made for (0: for none), whether a channel was passed in, and the
\* lines of the merged conversation
TooShort ==
    [total_updates |-> 0, linear_comments_posted |-> 0, escalations_created |-> <<>>,
     slack_posted |-> FALSE, summary_text |-> "too short", issue_updates |-> <<>>,
     errors |-> <<"Conversation too short">>, calls |-> NoCalls, extraction |-> "none",
     trace |-> <<>>, channel |-> FALSE, conversation |-> <<>>]

\* _extract_issue_updates: one call of the reasoning backend; every exception
\* (the call, json.loads, building the updates) is caught there and gives [],
\* so that the call itself never raises
ExtractIssueUpdates(io) ==
    [raised |-> FALSE,
     updates |-> IF io.extract.how = "ok"
                 THEN [i \in 1 .. Len(io.extract.updates) |->
                          [identifier |-> io.extract.updates[i].identifier,
                           escalation_needed |-> io.extract.updates[i].escalation_needed,
                           estimate_days |-> io.extract.updates[i].estimate_days,
                           issue_id |-> FALSE]]
                 ELSE <<>>]

UpdateError(a, u) == [a EXCEPT !.errors = Append(@, "Error processing " \o u.identifier)]

Tracker(a) == [a EXCEPT !.calls.tracker = @ + 1]

\* a call of the tracker for the i-th update, and how it went
Call(a, i, step, outcome) ==
    [Tracker(a) EXCEPT !.trace = Append(@, [upd |-> i, call |-> step,
                                            outcome |-> outcome])]

\* the escalation step of the i-th update, which creates an item whether or
\* not the update asks for it
EscalateAlways(a, i, o) ==
    LET u == a.issue_updates[i]
        c == Call(a, i, "escalation", o.escalation)
    IN  IF o.escalation = "raise" THEN UpdateError(c, u)
        ELSE IF o.escalation = "ok"
             THEN [c EXCEPT !.escalations_created =
                       Append(@, [original_issue |-> u.identifier, upd |-> i])]
             ELSE c

\* the escalation step of the i-th update: _create_escalation gives the handle
\* of the item created, or None
Escalate(a, i, o) ==
    LET u == a.issue_updates[i]
        c == Call(a, i, "escalation", o.escalation)
    IN  IF ~u.escalation_needed THEN a
        ELSE IF o.escalation = "raise" THEN UpdateError(c, u)
        ELSE IF o.escalation = "ok"
             THEN [c EXCEPT !.escalations_created =
                       Append(@, [original_issue |-> u.identifier, upd |-> i])]
             ELSE c

\* the estimate step of the i-th update, then the escalation step
Estimate(a, i, o) ==
    LET u == a.issue_updates[i]
        c == Call(a, i, "estimate", o.estimate)
    IN  IF u.estimate_days = 0 THEN Escalate(a, i, o)
        ELSE IF o.estimate = "raise" THEN UpdateError(c, u)
        ELSE Escalate(c, i, o)

\* the body of "for update in issue_updates" for the i-th update: one try
\* block around lookup, comment, estimate and escalation; an identifier that
\* is not of the form KEY-number is answered None without a query
ApplyUpdate(a, i, o) ==
    LET u == a.issue_updates[i]
        l == Call(a, i, "lookup", o.lookup)
    IN  IF u.identifier = "UNKNOWN"
        THEN [a EXCEPT !.trace = Append(@, [upd |-> i, call |-> "lookup",
                                            outcome |-> "none"])]
        ELSE IF o.lookup = "raise" THEN UpdateError(l, u)
        ELSE IF o.lookup = "none" THEN l
        ELSE LET f == [l EXCEPT !.issue_updates[i].issue_id = TRUE]
                 c == Call(f, i, "comment", o.comment)
             IN  IF o.comment = "raise" THEN UpdateError(c, u)
                 ELSE Estimate([c EXCEPT !.linear_comments_posted =
                                   IF o.comment = "ok" THEN @ + 1 ELSE @], i, o)

\* the loop over the updates with one try block around the whole loop
RECURSIVE ApplyUpdatesAbort(_, _, _)
ApplyUpdatesAbort(a, i, io) ==
    IF i > Len(a.issue_updates) THEN a
    ELSE LET n == ApplyUpdate(a, i, io.steps[i])
         IN  IF Len(n.errors) > Len(a.errors) THEN n
             ELSE ApplyUpdatesAbort(n, i + 1, io)

\* step 3, "for update in issue_updates"
RECURSIVE ApplyUpdates(_, _, _)
ApplyUpdates(a, i, io) ==
    IF i > Len(a.issue_updates) THEN a
    ELSE ApplyUpdates(ApplyUpdate(a, i, io.steps[i]), i + 1, io)

\* reasoning_service.generate_standup_summary: one call of the backend, whose
\* failure it answers itself with a fixed sentence, so that it never raises
StandupSummary(io) ==
    [raised |-> FALSE,
     text |-> IF io.summary = "raise" THEN "standup completed" ELSE io.summary]

\* _generate_fallback_summary: the updates with their status and blockers
FallbackSummary(updates) == "fallback summary"

\* step 4: the summary text, or the local fallback when generating it raises
GenerateSummary(a, io) ==
    LET g == StandupSummary(io)
        c == [a EXCEPT !.calls.llm = @ + 1,
                       !.trace = Append(@, [upd |-> 0, call |-> "summary",
                                            outcome |-> io.summary])]
    IN  IF g.raised
        THEN [c EXCEPT !.summary_text = FallbackSummary(a.issue_updates),
                       !.errors = Append(@, "Summary generation error")]
        ELSE [c EXCEPT !.summary_text = g.text]

\* step 5, _post_slack_summary
PostSlack(a, channel, io) ==
    LET c == [a EXCEPT !.calls.slack = @ + 1,
                       !.trace = Append(@, [upd |-> 0, call |-> "slack",
                                            outcome |-> io.slack])]
    IN  IF ~channel THEN a
        ELSE IF io.slack = "raise"
             THEN [c EXCEPT !.errors = Append(@, "Slack error")]
             ELSE [c EXCEPT !.slack_posted = (io.slack = "ok")]

\* process_session_end that returns early on an empty conversation only
ProcessSessionEndEmptyOnly(user, agent, channel, io) ==
    LET conversation == FormatConversation(user, agent)
    IN  IF conversation = <<>>
        THEN [TooShort EXCEPT !.channel = channel, !.conversation = conversation]
        ELSE LET e == ExtractIssueUpdates(io)
                 a == [TooShort EXCEPT !.errors = <<>>, !.summary_text = "",
                                       !.issue_updates = e.updates,
                                       !.total_updates = Len(e.updates),
                                       !.calls.llm = 1,
                                       !.channel = channel,
                                       !.conversation = conversation,
                                       !.extraction = io.extract.how,
                                       !.trace = <<[upd |-> 0, call |-> "extract",
                                                    outcome |-> io.extract.how]>>]
             IN  PostSlack(GenerateSummary(ApplyUpdates(a, 1, io), io), channel, io)

\* process_session_end(standup_id, user_transcripts, agent_transcripts,
\* team_id, slack_channel_id, issues_discussed); channel: slack_channel_id is
\* not empty
ProcessSessionEnd(user, agent, channel, io) ==
    LET conversation == FormatConversation(user, agent)
    IN  IF conversation = <<>> \/ ConversationLen(conversation) < MinConversation
        THEN [TooShort EXCEPT !.channel = channel, !.conversation = conversation]
        ELSE LET e == ExtractIssueUpdates(io)
                 updates == IF e.raised THEN <<>> ELSE e.updates
                 a == [TooShort EXCEPT !.errors = IF e.raised THEN <<"Extraction error">>
                                                  ELSE <<>>,
                                       !.summary_text = "",
                                       !.issue_updates = updates,
                                       !.total_updates = Len(updates),
                                       !.calls.llm = 1,
                                       !.channel = channel,
                                       !.conversation = conversation,
                                       !.extraction = io.extract.how,
                                       !.trace = <<[upd |-> 0, call |-> "extract",
                                                    outcome |-> io.extract.how]>>]
             IN  PostSlack(GenerateSummary(ApplyUpdates(a, 1, io), io), channel, io)

\* what the reasoning backend answers to the extraction prompt: it raises,
\* or answers text json.loads rejects, or a list of updates out of us
Extractions(us) ==
    {[how |-> h, updates |-> <<>>] : h \in {"raise", "undecodable", "ok"}}
    \cup {[how |-> "ok", updates |-> q] : q \in [1 .. MaxUpdates -> us]}

StepOk == [lookup |-> "found", comment |-> "ok", estimate |-> "ok", escalation |-> "ok"]

\* the answers of the collaborators to one call of process_session_end
PipelineOutcomes(In) ==
    [extract : Extractions(In.updates), steps : [1 .. MaxUpdates -> In.steps],
     summary : In.summaries, slack : In.slacks]

\* Short and long conversations, the extraction working or failing, an update
\* whose comment cannot be posted
PipelineInputs ==
    [updates |-> {[identifier |-> "A-1", escalation_needed |-> TRUE, estimate_days |-> 3],
                  [identifier |-> "A-1", escalation_needed |-> FALSE, estimate_days |-> 0],
                  [identifier |-> "UNKNOWN", escalation_needed |-> FALSE,
                   estimate_days |-> 0]},
     steps |-> {StepOk, [StepOk EXCEPT !.comment = "raise"]},
     summaries |-> {"text", "raise"},
     slacks |-> {"ok", "raise"}]

\* the transcripts of a session when it ends
InitPipeline ==
    /\ registry = [i \in Ids |-> 0]
    /\ \E n \in 0 .. MaxEntries :
          \E user \in ListsOf(n), agent \in ListsOf(MaxEntries - n) :
              S = [c \in Conns |-> IF c = 1
                                   THEN [InitConn EXCEPT !.user_transcripts = user,
                                                         !.agent_transcripts = agent]
                                   ELSE InitConn]

\* summary_result = await standup_summary_service.process_session_end(...)
Process(c, channel, io) ==
    /\ S[c].summary_result = <<>>
    /\ Set(c, [S[c] EXCEPT !.summary_result =
                  <<ProcessSessionEnd(S[c].user_transcripts, S[c].agent_transcripts,
                                      channel, io)>>])
    /\ UNCHANGED registry

NextPipeline ==
    /\ S[1].summary_result = <<>>
    /\ \E channel \in BOOLEAN, io \in PipelineOutcomes(PipelineInputs) :
          Process(1, channel, io)

SpecPipeline == InitPipeline /\ [][NextPipeline]_vars

\* how the tracker calls of one update can go: all well, or one of them
\* raising or answering without success
StepOutcomes ==
    {StepOk,
     [StepOk EXCEPT !.lookup = "none"], [StepOk EXCEPT !.lookup = "raise"],
     [StepOk EXCEPT !.comment = "not ok"], [StepOk EXCEPT !.comment = "raise"],
     [StepOk EXCEPT !.estimate = "raise"],
     [StepOk EXCEPT !.escalation = "not ok"], [StepOk EXCEPT !.escalation = "raise"]}

\* updates with and without an estimate and an escalation, and one without
\* an identifier the tracker can look up
DispatchUpdates ==
    {[identifier |-> "A-1", escalation_needed |-> TRUE, estimate_days |-> 3],
     [identifier |-> "A-1", escalation_needed |-> FALSE, estimate_days |-> 0],
     [identifier |-> "A-2", escalation_needed |-> TRUE, estimate_days |-> 0],
     [identifier |-> "A-2", escalation_needed |-> FALSE, estimate_days |-> 3],
     [identifier |-> "UNKNOWN", escalation_needed |-> TRUE, estimate_days |-> 0]}

\* every behaviour of the collaborators for up to MaxDispatched updates
DispatchOutcomes ==
    [extract : {[how |-> h, updates |-> <<>>] : h \in {"raise", "undecodable"}}
               \cup {[how |-> "ok", updates |-> q] :
                        q \in UNION {[1 .. n -> DispatchUpdates] : n \in 0 .. MaxDispatched}},
     steps : [1 .. MaxDispatched -> StepOutcomes],
     summary : {"text", "", "raise"},
     slack : {"ok", "not ok", "raise"}]

\* a session that ends with one developer entry, too short or long enough
InitDispatch ==
    /\ registry = [i \in Ids |-> 0]
    /\ \E n \in {MinConversation - (DeveloperLen + SeparatorLen) - 1,
                  MinConversation - (DeveloperLen + SeparatorLen)} :
          S = [c \in Conns |->
                 IF c = 1
                 THEN [InitConn EXCEPT !.user_transcripts = <<[text |-> n, timestamp |-> 1]>>]
                 ELSE InitConn]

NextDispatch ==
    /\ S[1].summary_result = <<>>
    /\ \E channel \in BOOLEAN, io \in DispatchOutcomes : Process(1, channel, io)

SpecDispatch == InitDispatch /\ [][NextDispatch]_vars

----------------------------------------------------------------------------
(* Properties of the session life cycle *)

\* The state of the session machine, read off the session's flags:
\* 0 INIT, 1 AWAITING_JOIN, 2 ACTIVE, 3 ENDING, 4 CLOSED
StateOf(s) ==
    IF s.closed \/ (s.initialized /\ ~s.is_active) THEN 4
    ELSE IF Ending(s) THEN 3
    ELSE IF ~s.is_active THEN 0
    ELSE IF s.conversation_started THEN 2
    ELSE 1

OpenSockets(s) == {k \in 1 .. Len(s.socks) : s.socks[k].open}
RunningListeners(s) == {k \in 1 .. Len(s.socks) : s.socks[k].task = "run"}

\* every coroutine of the session waits for the environment, none is inside
\* _end_session, and the handler is blocked in receive() or has returned
Quiescent(s) == ~Ending(s) /\ s.pc \in {"recv", "done"}

\* the upstream connection is released and the session is closed
Released(s) == ~s.is_active /\ ~s.is_connected /\ OpenSockets(s) = {}

\* C1: process_session_end is invoked at most once per session, whatever the
\* interleaving of client stop, upstream end_call and transport disconnect.
C1_PipelineAtMostOnce ==
    \A c \in Conns : S[c].pipelineCalls <= 1

\* C2: the session state never moves backwards, and once the session is CLOSED
\* (is_active cleared by end processing) no step makes it active again, starts
\* the upstream conversation, sets the conversation-started flag or enters
\* _end_session's processing again.
C2_MonotonicClosedTerminal ==
    [][\A c \in Conns :
         /\ StateOf(S'[c]) >= StateOf(S[c])
         /\ S[c].closed =>
              /\ ~S'[c].is_active
              /\ S'[c].started = S[c].started
              /\ S'[c].conversation_started = S[c].conversation_started
              /\ \A t \in Threads :
                   S[c].th[t].stage = "idle" => S'[c].th[t].stage = "idle"]_vars

\* C3: the session_ended message is emitted to the client at most once per
\* session: after the first end trigger every further trigger is a no-op.
C3_SessionEndedAtMostOnce ==
    \A c \in Conns : S[c].sessionEndedSent <= 1

\* C4: as long as no user_joined (and no force_start) message has been
\* received, no upstream socket has been opened and the conversation has not
\* been started: audio frames alone do not connect or start.
C4_NoUpstreamBeforeJoined ==
    \A c \in Conns :
        (~S[c].joinedSeen /\ ~S[c].forceSeen) =>
            /\ S[c].socks = <<>>
            /\ ~S[c].started
            /\ ~S[c].conversation_started

\* C5: a session that ended with at least one transcript entry after reaching
\* ACTIVE had the pipeline invoked, and the pipeline is invoked only for a
\* session with a transcript entry that reached ACTIVE.
C5_PipelineIffTranscriptsAndActive ==
    \A c \in Conns :
        /\ (S[c].pc = "done" /\ S[c].endSnap = "yes") => S[c].pipelineCalls > 0
        /\ S[c].pipelineCalls > 0 =>
              (HasTranscripts(S[c]) /\ S[c].conversation_started)

\* C6: once end processing was triggered and every coroutine of the session
\* has run as far as it can without the environment, the upstream connection
\* is released and the session is closed.
C6_EndReleasesUpstream ==
    \A c \in Conns :
        (S[c].endTriggered /\ Quiescent(S[c])) => Released(S[c])

\* C7: a session that was initialised and whose client is still reachable
\* when its handler returns has been sent session_ended.
C7_TerminalStatusIfReachable ==
    \A c \in Conns :
        (S[c].pc = "done" /\ S[c].initialized /\ ~S[c].peerGone) =>
            S[c].sessionEndedSent >= 1

\* C8: when start_agent fails (connect failure or readiness timeout) the
\* session stays in AWAITING_JOIN, flag and start time unset, and a message
\* reporting the failure is handed to the client transport.
C8_JoinFailureSurfaced ==
    \A c \in Conns :
        (S[c].lastOp.kind = "joined"
           /\ S[c].lastOp.result \in {"connect_fail", "timeout"}) =>
            /\ S[c].lastOp.notified
            /\ ~S[c].conversation_started
            /\ ~S[c].start_time

\* C9: a session never has two open upstream sockets nor two running
\* receive loops.
C9_AtMostOneLiveUpstream ==
    \A c \in Conns :
        /\ Cardinality(OpenSockets(S[c])) <= 1
        /\ Cardinality(RunningListeners(S[c])) <= 1

\* C10: from the insertion by its handler until that handler removes it, the
\* registry maps the session's id to that session, also when two connections
\* use the same id.
C10_RegistryMapsLiveSessions ==
    \A c \in Conns :
        S[c].pc \notin {"new", "done"} => registry[S[c].sid] = c

----------------------------------------------------------------------------
(* Properties of the upstream audio path *)

\* the audio messages the upstream socket accepted, in send order
Delivered(s) == SelectSeq(s.sent, LAMBDA m : m.kind = "audio" /\ m.ok)

\* the frames written to the upstream, in order
RECURSIVE WireIds(_)
WireIds(q) == IF q = <<>> THEN <<>> ELSE Head(q).ids \o WireIds(Tail(q))

Increasing(q) == \A i \in 1 .. (Len(q) - 1) : q[i] < q[i + 1]

LastN(q, n) == IF Len(q) <= n THEN q ELSE SubSeq(q, Len(q) - n + 1, Len(q))

\* the step is a call of queue_pcm on connection c
QueueStep(c) == S'[c].queue_calls = S[c].queue_calls + 1

\* the websocket.send calls of the step
NewSends(c) == SubSeq(S'[c].sent, Len(S[c].sent) + 1, Len(S'[c].sent))

\* C11 (as claimed): the bytes written to the upstream socket are, in order and
\* without duplication, a subsequence of the bytes passed to queue(): the
\* frames written are in queue order, each at most once, and a message holds
\* exactly the bytes of its frames.
C11_WireIsSubsequenceOfQueued ==
    \A c \in Conns :
        /\ Increasing(WireIds(Delivered(S[c])))
        /\ \A i \in 1 .. Len(Delivered(S[c])) :
               Delivered(S[c])[i].bytes = Delivered(S[c])[i].len

\* C11 (amended): the frames written to the upstream socket are in queue
\* order, each at most once, and older than every frame still buffered (the
\* accumulation buffer before the pre-readiness FIFO); a message holds the
\* bytes of its frames followed by one zero byte when their length is odd.
C11_WireOrderUpToPadding ==
    \A c \in Conns :
        /\ Increasing(WireIds(Delivered(S[c])) \o FrameIds(S[c].pcm_buffer)
                         \o FrameIds(S[c].pending))
        /\ \A i \in 1 .. Len(WireIds(Delivered(S[c]))) :
               WireIds(Delivered(S[c]))[i] \in 1 .. S[c].queue_calls
        /\ \A i \in 1 .. Len(Delivered(S[c])) :
               LET m == Delivered(S[c])[i]
               IN  m.bytes = m.len + (m.len % 2)

\* C11 witness: the readiness flush wrote two frames buffered before readiness
\* as the first message, and a later message followed
C11_Witness ==
    \E c \in Conns :
        /\ Len(Delivered(S[c])) >= 2
        /\ Delivered(S[c])[1].ids = <<1, 2>>
        /\ S[c].conversation_ready

\* C12: before readiness the FIFO never holds more than 10 frames; a queue()
\* call on a connected handler appends the frame and drops the oldest one
\* when that makes 11, and sends nothing.
C12_BoundedFifoDropOldest ==
    /\ [](\A c \in Conns : Len(S[c].pending) <= MaxPending)
    /\ [][\A c \in Conns :
            (QueueStep(c) /\ S[c].is_connected /\ ~S[c].conversation_ready
               /\ S'[c].frame.len > 0) =>
                /\ S'[c].pending = LastN(Append(S[c].pending, S'[c].frame), MaxPending)
                /\ S'[c].sent = S[c].sent
                /\ S'[c].pcm_buffer = S[c].pcm_buffer]_vars

\* C12 witness: an 11th frame arrived before readiness and the oldest is gone
C12_Witness ==
    \E c \in Conns :
        /\ ~S[c].conversation_ready
        /\ S[c].queue_calls > MaxPending
        /\ Len(S[c].pending) = MaxPending
        /\ S[c].pending[1].id > 1
        /\ S[c].pending[MaxPending].id = S[c].queue_calls

\* C13 (as claimed): after readiness a flush occurs as soon as the buffer
\* holds 3200 bytes or the interval since the last flush is over: in no state
\* does a ready, connected handler hold buffered bytes with either condition true.
C13_FlushExactlyWhenDue ==
    \A c \in Conns :
        (S[c].conversation_ready /\ S[c].is_connected /\ S[c].pcm_buffer # <<>>) =>
            (SumSeq(S[c].pcm_buffer) < FlushBytes /\ ~S[c].interval_over)

\* C13 (amended): after readiness a queue() call flushes at its end exactly
\* when the buffer then holds 3200 bytes or more or the interval since the
\* last flush is over; otherwise it only appends. The interval running out
\* does not flush by itself.
C13_QueueFlushesWhenDue ==
    [][\A c \in Conns :
         /\ (QueueStep(c) /\ S[c].is_connected /\ S[c].conversation_ready
               /\ S'[c].frame.len > 0) =>
                LET b == Append(S[c].pcm_buffer, S'[c].frame)
                IN  IF SumSeq(b) >= FlushBytes \/ S[c].interval_over
                    THEN S'[c].pcm_buffer = <<>> /\ ~S'[c].interval_over
                    ELSE S'[c].pcm_buffer = b /\ S'[c].sent = S[c].sent
         /\ (S'[c].interval_over /\ ~S[c].interval_over) =>
                (S'[c].pcm_buffer = S[c].pcm_buffer /\ S'[c].sent = S[c].sent)]_vars

\* C13 witness: the last frame queued went out in a message below the threshold
C13_Witness ==
    \E c \in Conns :
        /\ S[c].conversation_ready /\ S[c].pcm_buffer = <<>>
        /\ S[c].frame.len > 0
        /\ \E i \in 1 .. Len(Delivered(S[c])) :
               LET m == Delivered(S[c])[i]
               IN  m.len < FlushBytes /\ m.ids[Len(m.ids)] = S[c].queue_calls

\* C14: the accumulation buffer never holds 3200 bytes or more between
\* calls; a queue() call that brings it to 3200 bytes or more empties it with
\* one outbound message holding all the buffered frames (none when the send
\* fails for every candidate).
C14_OneFlushAtThreshold ==
    /\ [](\A c \in Conns : SumSeq(S[c].pcm_buffer) < FlushBytes)
    /\ [][\A c \in Conns :
            (QueueStep(c) /\ S[c].is_connected /\ S[c].conversation_ready
               /\ SumSeq(S[c].pcm_buffer) + S'[c].frame.len >= FlushBytes) =>
                /\ S'[c].pcm_buffer = <<>>
                /\ IF S'[c].is_connected
                   THEN /\ Len(Delivered(S'[c])) = Len(Delivered(S[c])) + 1
                        /\ Delivered(S'[c])[Len(Delivered(S'[c]))].ids =
                               FrameIds(Append(S[c].pcm_buffer, S'[c].frame))
                   ELSE Delivered(S'[c]) = Delivered(S[c])]_vars

\* C14 witness: two appends crossed the threshold and went out as one message
C14_Witness ==
    \E c \in Conns :
        /\ S[c].pcm_buffer = <<>> /\ S[c].is_connected
        /\ \E i \in 1 .. Len(Delivered(S[c])) :
               Delivered(S[c])[i].len >= FlushBytes /\ Len(Delivered(S[c])[i].ids) = 2

\* candidate 0 failed and candidate 1 succeeded at positions i, i + 1
ZeroFailedOneOk(s, i) ==
    /\ i + 1 <= Len(s.sent)
    /\ s.sent[i].kind = "audio" /\ s.sent[i].fmt = 0 /\ ~s.sent[i].ok
    /\ s.sent[i + 1].kind = "audio" /\ s.sent[i + 1].fmt = 1 /\ s.sent[i + 1].ok
    /\ s.sent[i + 1].sock = s.sent[i].sock

\* C15 (as claimed): once candidate 0 failed and candidate 1 succeeded, every
\* later audio send on that connection uses candidate 1 and no other.
C15_NeverReprobes ==
    \A c \in Conns : \A i \in 1 .. Len(S[c].sent) :
        ZeroFailedOneOk(S[c], i) =>
            \A j \in (i + 2) .. Len(S[c].sent) :
                (S[c].sent[j].kind = "audio" /\ S[c].sent[j].sock = S[c].sent[i].sock)
                    => S[c].sent[j].fmt = 1

\* C15 (amended): once candidate 0 failed and candidate 1 succeeded, every
\* later audio send on that connection starts with the candidate of the last
\* successful send, and another candidate than 1 is tried only after a send
\* with candidate 1 has raised.
C15_ReprobesOnlyAfterRaise ==
    \A c \in Conns : \A i \in 1 .. Len(S[c].sent) :
        ZeroFailedOneOk(S[c], i) =>
            \A j \in (i + 2) .. Len(S[c].sent) :
                (S[c].sent[j].kind = "audio" /\ S[c].sent[j].sock = S[c].sent[i].sock)
                    => /\ S[c].sent[j - 1].ok => S[c].sent[j].fmt = S[c].sent[j - 1].fmt
                       /\ S[c].sent[j].fmt # 1 =>
                              \E m \in (i + 2) .. (j - 1) :
                                  S[c].sent[m].fmt = 1 /\ ~S[c].sent[m].ok

\* C15 witness: after 0 failed and 1 succeeded, a later send used candidate 1
C15_Witness ==
    \E c \in Conns : \E i \in 1 .. Len(S[c].sent) :
        /\ ZeroFailedOneOk(S[c], i)
        /\ i + 2 <= Len(S[c].sent)
        /\ S[c].sent[i + 2].kind = "audio" /\ S[c].sent[i + 2].fmt = 1
        /\ S[c].sent[i + 2].ok /\ S[c].sent[i + 2].sock = S[c].sent[i].sock

\* C16: a send with no cached format tries the candidates in the order
\* 0, 1, 2, 3, each only after the previous one raised, stops at the first
\* that succeeds and caches it (one message delivered); a send clears the
\* connected flag only if every candidate raised in it.
C16_ProbeInOrderCacheFirst ==
    [][\A c \in Conns :
         LET new == NewSends(c)
         IN  (new # <<>> /\ new[1].kind = "audio") =>
               /\ S[c].successful_payload_format = NoFormat =>
                     /\ \A i \in 1 .. Len(new) :
                            new[i].fmt = i - 1 /\ (i < Len(new) => ~new[i].ok)
                     /\ new[Len(new)].ok =>
                            /\ S'[c].successful_payload_format = new[Len(new)].fmt
                            /\ Len(Delivered(S'[c])) = Len(Delivered(S[c])) + 1
                     /\ ~new[Len(new)].ok => Len(new) = NumVariants
               /\ (S[c].is_connected /\ ~S'[c].is_connected) =>
                     \A v \in Variants :
                         \E i \in 1 .. Len(new) : new[i].fmt = v /\ ~new[i].ok
               /\ (\A i \in 1 .. Len(new) : ~new[i].ok) => ~S'[c].is_connected]_vars

\* C16 witness: candidates 0, 1, 2 raised and candidate 3 was cached
C16_Witness ==
    \E c \in Conns :
        /\ S[c].successful_payload_format = NumVariants - 1
        /\ S[c].is_connected
        /\ Len(Delivered(S[c])) = 1

\* C17: every upstream socket error, caught in the receive loop or while
\* sending audio, is delivered to the registered error observer; a close with
\* code 1000 clears the connected flag and is no error.
C17_SocketErrorsReachObserver ==
    [][\A c \in Conns :
         /\ S'[c].socket_errors > S[c].socket_errors =>
               (~S'[c].is_connected /\ S'[c].error_events > S[c].error_events)
         /\ (S[c].is_connected /\ ~S'[c].is_connected
               /\ S'[c].socket_errors = S[c].socket_errors) =>
               S'[c].error_events = S[c].error_events]_vars

\* the websocket.send calls made on socket k
OnSocket(s, k) == SelectSeq(s.sent, LAMBDA m : m.sock = k)

\* C18 (as claimed): on every socket opened, exactly one initialization
\* message is sent, and it is the first message on that socket.
C18_OneInitPerConnect ==
    \A c \in Conns : \A k \in 1 .. Len(S[c].socks) :
        /\ Len(OnSocket(S[c], k)) >= 1
        /\ OnSocket(S[c], k)[1].kind = "init"
        /\ \A i \in 2 .. Len(OnSocket(S[c], k)) : OnSocket(S[c], k)[i].kind # "init"

\* C18 (amended): a connect made while contextual variables are set hands
\* exactly one initialization message to the new socket, a connect made
\* while none are set sends none; an initialization message is the first
\* message on its socket and never sent twice on one socket.
C18_InitOnlyWithVariables ==
    /\ [](\A c \in Conns : \A k \in 1 .. Len(S[c].socks) :
             \A i \in 2 .. Len(OnSocket(S[c], k)) : OnSocket(S[c], k)[i].kind # "init")
    /\ [][\A c \in Conns :
            Len(S'[c].socks) = Len(S[c].socks) + 1 =>
                IF S[c].dynamic_variables # Unset
                THEN /\ Len(NewSends(c)) = 1
                     /\ NewSends(c)[1].kind = "init"
                     /\ NewSends(c)[1].sock = Len(S'[c].socks)
                     /\ S'[c].init_sent = NewSends(c)[1].ok
                ELSE NewSends(c) = <<>> /\ ~S'[c].init_sent]_vars

\* C18 witness: a socket whose first message is the initialization message,
\* followed by audio
C18_Witness ==
    \E c \in Conns : \E k \in 1 .. Len(S[c].socks) :
        /\ Len(OnSocket(S[c], k)) >= 2
        /\ OnSocket(S[c], k)[1].kind = "init" /\ OnSocket(S[c], k)[1].ok
        /\ OnSocket(S[c], k)[2].kind = "audio" /\ OnSocket(S[c], k)[2].ok

----------------------------------------------------------------------------
(* Properties of the summary pipeline *)

\* the characters of the merged conversation: each entry with a non-empty text
\* is one line "speaker: text", the lines are joined by newlines
RECURSIVE LineChars(_, _)
LineChars(q, who) ==
    IF q = <<>> THEN 0
    ELSE (IF Head(q).text = 0 THEN 0
          ELSE SpeakerLen(who) + SeparatorLen + Head(q).text + NewlineLen)
         + LineChars(Tail(q), who)

MergedChars(s) ==
    LET n == LineChars(s.user_transcripts, "Developer")
               + LineChars(s.agent_transcripts, "AI Moderator")
    IN  IF n = 0 THEN 0 ELSE n - NewlineLen

\* C19: when the merged conversation text is shorter than 50 characters,
\* process_session_end returns no updates and the "too short" marker, and has
\* called neither the reasoning backend nor the tracker nor the messaging
\* collaborator.
C19_ShortConversationShortCircuits ==
    \A c \in Conns :
        (S[c].summary_result # <<>> /\ MergedChars(S[c]) < MinConversation) =>
            LET r == S[c].summary_result[1]
            IN  /\ r.total_updates = 0 /\ r.issue_updates = <<>>
                /\ r.errors = <<"Conversation too short">>
                /\ r.summary_text = "too short"
                /\ r.calls = NoCalls
                /\ r.linear_comments_posted = 0 /\ r.escalations_created = <<>>
                /\ ~r.slack_posted

\* C19 witness: a conversation of 49 characters was processed
C19_Witness ==
    \E c \in Conns :
        /\ S[c].summary_result # <<>>
        /\ MergedChars(S[c]) = MinConversation - 1
        /\ S[c].summary_result[1].summary_text = "too short"

\* C20: when the extraction call fails or its output cannot be decoded, the
\* result has no updates and its error list has an entry recording the
\* extraction failure.
C20_ExtractionFailureRecorded ==
    \A c \in Conns :
        (S[c].summary_result # <<>>
           /\ S[c].summary_result[1].extraction \in {"raise", "undecodable"}) =>
            LET r == S[c].summary_result[1]
            IN  /\ r.total_updates = 0
                /\ \E i \in 1 .. Len(r.errors) : r.errors[i] = "Extraction error"

\* the calls of the trace of r that went well
Succeeded(e) == e.outcome \in {"found", "ok", "text"}

\* the call made for update j at step with the given outcome is in the trace
Called(r, j, step, outcome) ==
    \E k \in 1 .. Len(r.trace) :
        r.trace[k] = [upd |-> j, call |-> step, outcome |-> outcome]

\* update j of r went through lookup, comment and, if it asks for one, escalation
FullyProcessed(r, j) ==
    /\ Called(r, j, "lookup", "found") /\ r.issue_updates[j].issue_id
    /\ Called(r, j, "comment", "ok")
    /\ r.issue_updates[j].escalation_needed =>
          /\ Called(r, j, "escalation", "ok")
          /\ \E e \in 1 .. Len(r.escalations_created) : r.escalations_created[e].upd = j

C22_StepsCaughtIndependently ==
    \A c \in Conns :
        S[c].summary_result # <<>> =>
            LET r == S[c].summary_result[1]
            IN  \A j \in 1 .. Len(r.issue_updates) :
                    (Called(r, j, "comment", "raise")
                       /\ r.issue_updates[j].escalation_needed) =>
                        \E k \in 1 .. Len(r.trace) :
                            r.trace[k].upd = j /\ r.trace[k].call = "escalation"

\* the calls of r that failed: they raised, or their answer could not be decoded
Failures(r) == SelectSeq(r.trace, LAMBDA e : e.outcome \in {"raise", "undecodable"})

\* C23: process_session_end returns a result whatever collaborator calls
\* fail, and every failed call has its entry in the returned error list.
C23_EveryFailureAccumulated ==
    \A c \in Conns :
        S[c].summary_result # <<>> =>
            Len(S[c].summary_result[1].errors) >= Len(Failures(S[c].summary_result[1]))

\* C24: every entry of escalations_created belongs to an update that asks for
\* an escalation and whose creation call succeeded, no update has two
\* entries, every successful creation has its entry, and a creation that
\* fails or is answered without success has none.
C24_EscalationsOnlyForFlagged ==
    \A c \in Conns :
        S[c].summary_result # <<>> =>
            LET r == S[c].summary_result[1]
                esc == r.escalations_created
            IN  /\ \A e \in 1 .. Len(esc) :
                       /\ r.issue_updates[esc[e].upd].escalation_needed
                       /\ esc[e].original_issue = r.issue_updates[esc[e].upd].identifier
                       /\ Called(r, esc[e].upd, "escalation", "ok")
                       /\ \A f \in 1 .. Len(esc) : esc[f].upd = esc[e].upd => f = e
                /\ \A k \in 1 .. Len(r.trace) :
                       r.trace[k].call = "escalation" =>
                           /\ r.issue_updates[r.trace[k].upd].escalation_needed
                           /\ (r.trace[k].outcome = "ok") <=>
                                  (\E e \in 1 .. Len(esc) : esc[e].upd = r.trace[k].upd)

\* C24 witness: two updates ask for an escalation, the first creation is
\* answered without success and the second succeeds
C24_Witness ==
    \E c \in Conns :
        /\ S[c].summary_result # <<>>
        /\ LET r == S[c].summary_result[1]
           IN  /\ Called(r, 1, "escalation", "not ok")
               /\ Called(r, 2, "escalation", "ok")
               /\ Len(r.escalations_created) = 1
               /\ r.escalations_created[1].upd = 2

\* C25: when the reasoning backend fails while the summary is generated, the
\* summary text of the result is the local fallback listing the updates.
C25_FallbackOnSummaryFailure ==
    \A c \in Conns :
        (S[c].summary_result # <<>>
           /\ Called(S[c].summary_result[1], 0, "summary", "raise")) =>
            S[c].summary_result[1].summary_text
                = FallbackSummary(S[c].summary_result[1].issue_updates)

\* C26: the summary text of every result is non-empty.
C26_SummaryTextNonEmpty ==
    \A c \in Conns :
        S[c].summary_result # <<>> => S[c].summary_result[1].summary_text # ""

\* the slack calls of r
SlackCalls(r) == SelectSeq(r.trace, LAMBDA e : e.call = "slack")

\* C27: the messaging collaborator is called once if a channel is
\* configured and the conversation was not too short, and not at all
\* otherwise; a post that raises or is answered not ok leaves slack_posted
\* false and is recorded in the error list.
C27_PostFailureRecorded ==
    \A c \in Conns :
        S[c].summary_result # <<>> =>
            LET r == S[c].summary_result[1]
            IN  /\ Len(SlackCalls(r)) =
                      IF r.channel /\ MergedChars(S[c]) >= MinConversation THEN 1 ELSE 0
                /\ r.calls.slack = Len(SlackCalls(r))
                /\ \A k \in 1 .. Len(SlackCalls(r)) :
                       SlackCalls(r)[k].outcome # "ok" =>
                           /\ ~r.slack_posted
                           /\ \E e \in 1 .. Len(r.errors) : r.errors[e] = "Slack error"

\* C30: for a frame taken before the conversation has started, should_start
\* is true exactly when the frame is speech (rms > 0.002), or at least 30
\* frames were taken and the average rms is above 0.008, or at least 100
\* frames were taken; the reason sent with "started" names the first of
\* these three conditions that holds.
C30_GateConditionsAndReason ==
    \A c \in Conns :
        S[c].gate.frame.id > 0 =>
            LET g == S[c].gate
                speech == g.frame.rms > SpeechRms
                avg == /\ S[c].pre_start_chunks >= AvgChunks
                       /\ S[c].rms_accum > AvgRms * S[c].pre_start_chunks
                auto == S[c].pre_start_chunks >= AutoChunks
            IN  /\ g.start <=> (speech \/ avg \/ auto)
                /\ (S[c].lastOp.kind = "audio" /\ S[c].lastOp.result = "ok")
                       => g.reason # ""
                /\ g.reason # "" =>
                       /\ g.start
                       /\ g.reason = IF speech THEN "speech"
                                     ELSE IF avg THEN "avg_rms" ELSE "auto"

\* C30 witness: the conversation starts on a silent frame, the 30th, because
\* the average of the frames before is high
C30_Witness ==
    \E c \in Conns :
        /\ S[c].gate.reason = "avg_rms"
        /\ S[c].gate.frame.rms = 0
        /\ S[c].pre_start_chunks = AvgChunks
        /\ S[c].started

\* the arrival positions of the events of the kinds in K delivered to the
\* active session
Arrived(s, K) ==
    LET idx == {i \in 1 .. Len(s.delivered) : s.delivered[i] \in K}
        RECURSIVE Up(_)
        Up(I) == IF I = {} THEN <<>>
                 ELSE LET m == CHOOSE x \in I : \A y \in I : x <= y
                      IN  <<m>> \o Up(I \ {m})
    IN  Up(idx)

\* the events the entries of q were appended for
EventsOf(q) == [i \in 1 .. Len(q) |-> q[i].event]

\* q begins with p
Extends(q, p) == Len(q) >= Len(p) /\ SubSeq(q, 1, Len(p)) = p

\* C29: the agent sequence holds the agent-text events and the user sequence
\* the user-transcript events delivered to the active session, in arrival
\* order, the timestamps of each sequence do not decrease, and a step only
\* appends to the sequences.
C29_TranscriptsAppendedInOrder ==
    /\ [](\A c \in Conns :
             /\ EventsOf(S[c].agent_transcripts) = Arrived(S[c], {"agent_text"})
             /\ EventsOf(S[c].user_transcripts)
                    = Arrived(S[c], {"user_transcript", "user_text"})
             /\ Sorted(S[c].agent_transcripts)
             /\ Sorted(S[c].user_transcripts))
    /\ [][\A c \in Conns :
             /\ Extends(S'[c].agent_transcripts, S[c].agent_transcripts)
             /\ Extends(S'[c].user_transcripts, S[c].user_transcripts)]_vars

\* how many entries of q have text x and timestamp t
Count(q, x, t) ==
    Cardinality({i \in 1 .. Len(q) : q[i].text = x /\ q[i].timestamp = t})

\* how many lines of conv are who's, with text x and timestamp t
CountLines(conv, who, x, t) ==
    Cardinality({i \in 1 .. Len(conv) : /\ conv[i].speaker = who
                                        /\ conv[i].text = x
                                        /\ conv[i].timestamp = t})

\* C28: the merged conversation holds every entry with a non-empty text of
\* both transcript lists exactly once, as a line of its speaker, and nothing
\* else, and its lines are in non-decreasing order of timestamp, whatever
\* the order of the entries in the lists.
C28_MergedByTimestamp ==
    \A c \in Conns :
        S[c].summary_result # <<>> =>
            LET conv == S[c].summary_result[1].conversation
            IN  /\ \A i \in 1 .. Len(conv) : conv[i].text # 0
                /\ \A x \in TextLens \ {0}, t \in Stamps :
                       /\ CountLines(conv, "Developer", x, t)
                              = Count(S[c].user_transcripts, x, t)
                       /\ CountLines(conv, "AI Moderator", x, t)
                              = Count(S[c].agent_transcripts, x, t)
                /\ \A i \in 1 .. Len(conv), j \in 1 .. Len(conv) :
                       i < j => conv[i].timestamp <= conv[j].timestamp

\* C28 witness: the user's later entry is first in its list, and the merged
\* conversation has the two lines in the order of their timestamps
C28_Witness ==
    \E c \in Conns :
        /\ S[c].summary_result # <<>>
        /\ Len(S[c].user_transcripts) = 2
        /\ S[c].user_transcripts[1].timestamp > S[c].user_transcripts[2].timestamp
        /\ S[c].user_transcripts[1].text # S[c].user_transcripts[2].text
        /\ Len(S[c].summary_result[1].conversation) = 2
        /\ S[c].summary_result[1].conversation[1].text = S[c].user_transcripts[2].text

\* C31: in front of frames whose rms is above 0.008 throughout, should_start
\* is true at every frame from the first on, hence by frame 30, and since
\* every such frame is speech the reason sent with a start is "speech".
C31_SustainedStartsBySpeech ==
    \A c \in Conns :
        S[c].gate.frame.id > 0 =>
            /\ S[c].gate.frame.rms > AvgRms
            /\ S[c].rms_accum > AvgRms * S[c].pre_start_chunks
            /\ S[c].gate.start
            /\ (S[c].lastOp.kind = "audio" /\ S[c].lastOp.result = "ok")
                   => S[c].gate.reason = "speech"
            /\ S[c].gate.reason \in {"", "speech"}

\* C31 witness: the starts of the first 29 frames fail and the conversation
\* starts on the 30th frame
C31_Witness ==
    \E c \in Conns :
        /\ S[c].pre_start_chunks = AvgChunks
        /\ S[c].started
        /\ S[c].gate.reason = "speech"
        /\ S[c].rms_accum > AvgRms * AvgChunks

\* C32: in front of frames of zeros, frames without bytes and frames of fewer
\* than four samples only, no frame is speech, the accumulated rms stays 0,
\* should_start is false before the 100th frame and true at the 100th, and
\* the reason sent with the start is "auto".
C32_DegenerateFramesAutoStart ==
    \A c \in Conns :
        S[c].gate.frame.id > 0 =>
            /\ ~IsSpeech(S[c].gate.frame)
            /\ S[c].rms_accum = 0
            /\ S[c].gate.start <=> S[c].pre_start_chunks >= AutoChunks
            /\ (S[c].lastOp.kind = "audio" /\ S[c].lastOp.result = "ok")
                   => S[c].gate.reason = "auto"
            /\ S[c].gate.reason \in {"", "auto"}

\* C32 witness: the conversation starts on the 100th frame, a frame of three
\* loud samples
C32_Witness ==
    \E c \in Conns :
        /\ S[c].pre_start_chunks = AutoChunks
        /\ S[c].started
        /\ S[c].gate.reason = "auto"
        /\ S[c].gate.frame.len = TinyFrame.len

\* C33: when a user_joined message without topics has started the
\* conversation of a session with a team, the tracker was asked, the session
\* context is what it answered, and the initialization message sent on the
\* upstream socket carries issues_count = str(number of topics of the context).
C33_FetchedTopicsCounted ==
    \A c \in Conns :
        (/\ S[c].lastOp.kind = "joined" /\ S[c].lastOp.result = "ok"
         /\ S[c].join.topics = 0 /\ S[c].team_id) =>
            /\ S[c].join.asked
            /\ S[c].issues_context
                   = IF S[c].join.fetched = Unset THEN 0 ELSE S[c].join.fetched
            /\ OnSocket(S[c], S[c].websocket) # <<>>
            /\ OnSocket(S[c], S[c].websocket)[1].kind = "init"
            /\ IssuesCount(OnSocket(S[c], S[c].websocket)[1].vars)
                   = DecimalString(S[c].issues_context)

\* the handler takes a ping, force_start or get_transcripts message in this
\* step, or comes back from the start() a force_start called
ControlStep(c) ==
    \/ S[c].pc = "recv" /\ S'[c].ctl.type # ""
    \/ S[c].pc = "wait" /\ S[c].waitKind = "force" /\ S'[c].pc # "wait"

\* C34: a step that handles ping, force_start or get_transcripts leaves
\* is_active, _conversation_started, _start_time and both transcript
\* sequences unchanged; ping is answered with one pong, get_transcripts with
\* one message holding the current sequences, and force_start calls start()
\* only if the upstream conversation has not started.
C34_ControlMessagesKeepState ==
    [][\A c \in Conns :
          ControlStep(c) =>
              /\ S'[c].is_active = S[c].is_active
              /\ S'[c].conversation_started = S[c].conversation_started
              /\ S'[c].start_time = S[c].start_time
              /\ S'[c].user_transcripts = S[c].user_transcripts
              /\ S'[c].agent_transcripts = S[c].agent_transcripts
              /\ S'[c].ctl.type = "ping" => S'[c].ctl.reply = <<[type |-> "pong"]>>
              /\ S'[c].ctl.type = "get_transcripts" =>
                     S'[c].ctl.reply = <<[type |-> "transcripts",
                                          user |-> S[c].user_transcripts,
                                          agent |-> S[c].agent_transcripts]>>
              /\ (S'[c].ctl.type = "force_start" /\ S[c].started) =>
                     /\ S'[c].socks = S[c].socks /\ S'[c].sent = S[c].sent
                     /\ S'[c].pc = "loop" /\ S'[c].ctl.reply = <<>>
                     /\ S'[c].started]_vars

\* C34 witness: a force_start has started the upstream conversation of a
\* session that holds a transcript entry
C34_Witness ==
    \E c \in Conns :
        /\ S[c].ctl.type = "force_start"
        /\ S[c].ctl.reply = <<[type |-> "status", started |-> TRUE]>>
        /\ S[c].started /\ ~S[c].conversation_started
        /\ HasTranscripts(S[c])

\* C35: a frame the listener cannot decode changes nothing of the connection
\* and of the session, and the listener of its socket keeps running, so that
\* the frames after it are handled.
C35_UndecodableFrameIgnored ==
    [][\A c \in Conns :
          S'[c].undecodable # S[c].undecodable =>
              S'[c] = [S[c] EXCEPT !.undecodable = S'[c].undecodable]]_vars

\* C36: a flush() that finds the accumulation buffer empty writes nothing to
\* the upstream socket and leaves the buffer, the connected flag, the cached
\* payload format and the time of the last flush as they were.
C36_EmptyFlushIsNoOp ==
    [][\A c \in Conns :
          S'[c].empty_flushes # S[c].empty_flushes =>
              /\ S'[c].sent = S[c].sent
              /\ S'[c].pcm_buffer = S[c].pcm_buffer
              /\ S'[c].is_connected = S[c].is_connected
              /\ S'[c].successful_payload_format = S[c].successful_payload_format
              /\ S'[c].interval_over = S[c].interval_over]_vars

\* an empty flush on a connection that has sent audio, more than the flush
\* interval after the last flush
C36_Witness ==
    \E c \in Conns :
        /\ S[c].empty_flushes > 0
        /\ S[c].is_connected
        /\ S[c].successful_payload_format # NoFormat
        /\ S[c].interval_over

\* C37: every audio message written to an upstream socket is written after
\* the readiness event was received on that socket.
C37_NoAudioBeforeReadiness ==
    [][\A c \in Conns : \A i \in (Len(S[c].sent) + 1) .. Len(S'[c].sent) :
          S'[c].sent[i].kind = "audio" => S'[c].socket_ready]_vars

\* C38: between two client messages, a session whose upstream conversation
\* was started (by joined, by the audio gate or by force_start) has its
\* conversation-started flag set and its start time recorded.
C38_StartedFlagAgrees ==
    \A c \in Conns :
        (S[c].pc \in {"loop", "recv"} /\ S[c].started) =>
            (S[c].conversation_started /\ S[c].start_time)

\* the messages of kind k written to the upstream sockets of s
SentOfKind(s, k) == {i \in 1 .. Len(s.sent) : s.sent[i].kind = k}

\* C39: every keepalive ping handled on an open connection has been answered
\* by a message written to the upstream.
C39_EveryPingAnswered ==
    \A c \in Conns :
        Cardinality(SentOfKind(S[c], "pong")) >= S[c].pings

====
